---- MODULE Spec2Model ----
(***************************************************************************)
(* A model of the nabatshy tracing backend: the attribute-predicate parser *)
(* of the query engine, the bucket-interval and padding algorithm of the   *)
(* time series, the OTLP/HTTP ingest handler with its store gateway, and   *)
(* the attribute flattening of the payload normaliser.                     *)
(*                                                                         *)
(* Go strings are modelled as sequences of one-character strings, so that  *)
(* splitting, trimming, joining and formatting are computed, not assumed.  *)
(***************************************************************************)
EXTENDS Integers, Sequences, FiniteSets, TLC

VARIABLES
    op,         \* the operation that produced the current state ("none" at start)
    query,      \* parser: the raw query string handed to SearchTraces
    attrs,      \* parser: the value parseAttributeQuery returned for it
    rows,       \* the rows of the table denormalized_span, in append order
    dateRange,  \* series: the DateRange of the request, [Start, End] in ticks
    interval,   \* series: the interval GetIntervalFromDateRange chose
    series,     \* series: the padded series the operation returned
    err,        \* series: whether the operation returned an error
    pc,         \* ingest: where the handler of POST /v1/traces stands
    request,    \* ingest: the HTTP request being handled
    req,        \* ingest: the decoded ExportTraceServiceRequest
    groupIdx,   \* ingest: the index of the next scope-spans group of ingestTrace
    status,     \* ingest: the status of the response written, 0 while none is
    batches,    \* ingest: the batches this request handed to the store gateway
    rows0,      \* ingest: the table as it was when this request arrived
    served,     \* ingest: the number of requests received so far
    attrsIn,    \* normaliser: the []*KeyValue handed to extractAttributes
    attrsOut,   \* normaliser: the map[string]string it returned
    doc,        \* ingest: the JSON document of the request body, where it is modelled
    call,       \* reader: the request handed to the query engine
    reply       \* reader: the response the reader wrote for it

vars == <<op, query, attrs, rows, dateRange, interval, series, err,
          pc, request, req, groupIdx, status, batches, rows0, served,
          attrsIn, attrsOut, doc, call, reply>>

parserVars == <<query, attrs>>
seriesVars == <<dateRange, interval, series, err>>
ingestVars == <<pc, request, req, groupIdx, status, batches, rows0, served>>
attrVars == <<attrsIn, attrsOut>>
apiVars == <<doc, call, reply>>

(***************************************************************************)
(* Go string helpers (package strings), as the parser uses them.           *)
(***************************************************************************)

\* strings.Contains(s, sub)
Contains(s, sub) ==
    \E i \in 1..(Len(s) - Len(sub) + 1) : SubSeq(s, i, i + Len(sub) - 1) = sub

\* strings.Index(s, sub), 1-based; only used where Contains(s, sub)
Index(s, sub) ==
    CHOOSE i \in 1..(Len(s) - Len(sub) + 1) :
        /\ SubSeq(s, i, i + Len(sub) - 1) = sub
        /\ \A j \in 1..(i - 1) : SubSeq(s, j, j + Len(sub) - 1) # sub

\* strings.Split(s, sep) for a non-empty separator
RECURSIVE Split(_, _)
Split(s, sep) ==
    IF ~Contains(s, sep)
    THEN <<s>>
    ELSE LET i == Index(s, sep)
         IN  <<SubSeq(s, 1, i - 1)>> \o Split(SubSeq(s, i + Len(sep), Len(s)), sep)

\* strings.SplitN(s, sep, 2)
SplitN2(s, sep) ==
    IF ~Contains(s, sep)
    THEN <<s>>
    ELSE LET i == Index(s, sep)
         IN  <<SubSeq(s, 1, i - 1), SubSeq(s, i + Len(sep), Len(s))>>

\* the white space strings.TrimSpace removes, within the model's alphabet
IsSpace(c) == c = " "

RECURSIVE TrimLeft(_)
TrimLeft(s) ==
    IF s # <<>> /\ IsSpace(Head(s)) THEN TrimLeft(Tail(s)) ELSE s

RECURSIVE TrimRight(_)
TrimRight(s) ==
    IF s # <<>> /\ IsSpace(s[Len(s)]) THEN TrimRight(SubSeq(s, 1, Len(s) - 1)) ELSE s

\* strings.TrimSpace(s)
TrimSpace(s) == TrimRight(TrimLeft(s))

(***************************************************************************)
(* The predicate parser, api/service.go.                                   *)
(***************************************************************************)

\* the operator strings of AttributeQuery.Operator, as character sequences
EqOp == <<"=">>
NeqOp == <<"!", "=">>

\* the nil slice parseAttributeQuery returns for "no predicate"
NilAttrs == [isNil |-> TRUE, list |-> <<>>]

\* AttributeQuery{Key, Value, Operator}
AttributeQuery(k, v, o) == [Key |-> k, Value |-> v, Operator |-> o]

\* a variant of the loop body that tests "=" before "!="
parsePair_EqFirst(pair0) ==
    LET pair == TrimSpace(pair0)
    IN  IF Contains(pair, EqOp)
        THEN LET parts == SplitN2(pair, EqOp)
             IN  <<AttributeQuery(TrimSpace(parts[1]), TrimSpace(parts[2]), "=")>>
        ELSE <<>>

\* the body of the loop over pairs: what one pair appends to attrs
parsePair(pair0) ==
    LET pair == TrimSpace(pair0)
    IN  IF Contains(pair, NeqOp)
        THEN LET parts == SplitN2(pair, NeqOp)
             IN  IF Len(parts) = 2
                 THEN <<AttributeQuery(TrimSpace(parts[1]), TrimSpace(parts[2]), "!=")>>
                 ELSE <<>>
        ELSE IF Contains(pair, EqOp)
        THEN LET parts == SplitN2(pair, EqOp)
             IN  IF Len(parts) = 2
                 THEN <<AttributeQuery(TrimSpace(parts[1]), TrimSpace(parts[2]), "=")>>
                 ELSE <<>>
        ELSE <<>>

\* the loop over pairs: attrs after all pairs were visited
RECURSIVE parsePairs(_)
parsePairs(pairs) ==
    IF pairs = <<>> THEN <<>> ELSE parsePair(Head(pairs)) \o parsePairs(Tail(pairs))

\* a variant of the final check that returns whatever was parsed
allPairsValid_Partial(parsed, pairs) == Len(parsed) > 0

\* "Only return parsed attributes if all pairs were valid"
allPairsValid(parsed, pairs) == Len(parsed) = Len(pairs)

parseAttributeQuery(q) ==
    IF q = <<>> THEN NilAttrs
    ELSE IF ~Contains(q, EqOp) THEN NilAttrs
    ELSE LET pairs == Split(q, <<",">>)
             parsed == parsePairs(pairs)
         IN  IF allPairsValid(parsed, pairs)
             THEN [isNil |-> FALSE, list |-> parsed]
             ELSE NilAttrs

(***************************************************************************)
(* Inputs of the parser: every string over a small alphabet up to a        *)
(* length, and the query strings the documentation names.                  *)
(***************************************************************************)
MaxQueryLen == 5

QueryChars == {"a", "=", "!", ",", " "}

DocQueries ==
    { <<"a", "=", "b", ",", "c", "!", "=", "d">>,
      <<"p", "l", "a", "i", "n", " ", "t", "e", "x", "t">>,
      <<"a", "=", "b", ",", "m", "a", "l", "f", "o", "r", "m", "e", "d">>,
      <<"a", "=", "b", ",">>,
      <<" ", "a", " ", "=", " ", "b", " ", ",", " ", "c", " ", "!", "=", " ", "d", " ">> }

Queries ==
    DocQueries \cup UNION { [1..n -> QueryChars] : n \in 0..MaxQueryLen }

ParserIdle == query = <<>> /\ attrs = NilAttrs

\* the state of the series variables while no series operation is modelled
SeriesIdle ==
    /\ dateRange = [Start |-> 0, End |-> 0]
    /\ interval = <<>>
    /\ series = <<>>
    /\ err = FALSE

\* the state of the ingest variables while no ingest is modelled
NoRequest ==
    [contentType |-> "", bodyRead |-> FALSE, format |-> "other", payload |-> <<>>,
     cancelled |-> FALSE]

IngestIdle ==
    /\ pc = "idle"
    /\ request = NoRequest
    /\ req = <<>>
    /\ groupIdx = 0
    /\ status = 0
    /\ batches = <<>>
    /\ rows0 = <<>>
    /\ served = 0

\* the state of the normaliser variables while no flattening is modelled
AttrsIdle ==
    /\ attrsIn = <<>>
    /\ attrsOut = <<>>

\* the state of the reader variables while no read is modelled
NoCall == [endpoint |-> "none", param |-> <<>>, storeOk |-> TRUE]
NoReply == [status |-> 0, body |-> <<>>]

ApiIdle ==
    /\ doc = <<>>
    /\ call = NoCall
    /\ reply = NoReply

InitParse ==
    /\ op = "none"
    /\ query \in Queries
    /\ attrs = NilAttrs
    /\ rows = <<>>
    /\ SeriesIdle
    /\ IngestIdle
    /\ AttrsIdle
    /\ ApiIdle

\* SearchTraces is handed the query string and parses it
ParseQuery ==
    /\ op = "none"
    /\ op' = "parseAttributeQuery"
    /\ attrs' = parseAttributeQuery(query)
    /\ UNCHANGED <<query, rows>>
    /\ UNCHANGED seriesVars
    /\ UNCHANGED ingestVars
    /\ UNCHANGED attrVars
    /\ UNCHANGED apiVars

NextParse == ParseQuery

SpecParse == InitParse /\ [][NextParse]_vars

(***************************************************************************)
(* Properties of the parser.  The helpers below restate the grammar on the *)
(* raw query string, by character positions, without the parser's own      *)
(* splitting and trimming.                                                 *)
(***************************************************************************)

\* the positions of the commas of q, and the number of them
CommaPositions(q) == { p \in 1..Len(q) : q[p] = "," }

\* the i-th comma-separated segment of q (1-based), read off the positions
SegmentOf(q, i) ==
    LET before == { p \in CommaPositions(q) :
                        Cardinality({ r \in CommaPositions(q) : r <= p }) = i - 1 }
        after  == { p \in CommaPositions(q) :
                        Cardinality({ r \in CommaPositions(q) : r <= p }) = i }
        from   == IF before = {} THEN 1 ELSE (CHOOSE p \in before : TRUE) + 1
        to     == IF after = {} THEN Len(q) ELSE (CHOOSE p \in after : TRUE) - 1
    IN  SubSeq(q, from, to)

NumSegments(q) == Cardinality(CommaPositions(q)) + 1

HasEq(s) == \E p \in 1..Len(s) : s[p] = "="

HasNeq(s) == \E p \in 1..(Len(s) - 1) : s[p] = "!" /\ s[p + 1] = "="

\* s with every blank removed
RECURSIVE Squeeze(_)
Squeeze(s) ==
    IF s = <<>> THEN <<>>
    ELSE IF Head(s) = " " THEN Squeeze(Tail(s))
    ELSE <<Head(s)>> \o Squeeze(Tail(s))

OpChars(o) == IF o = "!=" THEN <<"!", "=">> ELSE <<"=">>

\* t is s without its leading and trailing blanks
IsTrimOf(t, s) ==
    /\ t = <<>> \/ (t[1] # " " /\ t[Len(t)] # " ")
    /\ \E a \in 0..Len(s) : \E b \in 0..(Len(s) - a) :
          /\ t = SubSeq(s, a + 1, Len(s) - b)
          /\ \A p \in 1..a : s[p] = " "
          /\ \A p \in (Len(s) - b + 1)..Len(s) : s[p] = " "

ParsedAB_CD ==
    [isNil |-> FALSE,
     list |-> << AttributeQuery(<<"a">>, <<"b">>, "="),
                 AttributeQuery(<<"c">>, <<"d">>, "!=") >>]

\* C1: parseAttributeQuery is all-or-nothing.  The result is nil or holds
\* exactly one entry per comma-separated segment, in segment order (entry i
\* spells segment i once blanks are ignored).  It is nil when the string is
\* empty, has no "=" at all, or some segment has no "=" (so no "!=" either);
\* "a=b,c!=d" gives [{a,b,=},{c,d,!=}], "plain text", "a=b,malformed" and
\* "a=b," give nil.
C1_AllOrNothing ==
    op = "parseAttributeQuery" =>
        /\ \/ attrs = NilAttrs
           \/ /\ ~attrs.isNil
              /\ Len(attrs.list) = NumSegments(query)
              /\ \A i \in 1..Len(attrs.list) :
                    Squeeze(attrs.list[i].Key \o OpChars(attrs.list[i].Operator)
                                \o attrs.list[i].Value)
                        = Squeeze(SegmentOf(query, i))
        /\ ( \/ query = <<>>
             \/ ~HasEq(query)
             \/ \E i \in 1..NumSegments(query) : ~HasEq(SegmentOf(query, i)) )
               => attrs = NilAttrs
        /\ query = <<"a", "=", "b", ",", "c", "!", "=", "d">> => attrs = ParsedAB_CD
        /\ query = <<"p", "l", "a", "i", "n", " ", "t", "e", "x", "t">> => attrs = NilAttrs
        /\ query = <<"a", "=", "b", ",">> => attrs = NilAttrs

\* C1 witness: the documented query "a=b,c!=d" was parsed into its two entries.
C1_Witness ==
    /\ op = "parseAttributeQuery"
    /\ query = <<"a", "=", "b", ",", "c", "!", "=", "d">>
    /\ attrs = ParsedAB_CD

\* C2: every pair is split at its operator with "!=" preferred over "=": a
\* segment containing "!=" gives operator "!=" split at the first "!=", a
\* segment with "=" only gives operator "=" split at the first "=", and key
\* and value are the two sides without their surrounding blanks, taken
\* literally (no quoting or escaping).
C2_OperatorSplit ==
    (op = "parseAttributeQuery" /\ ~attrs.isNil) =>
        \A i \in 1..Len(attrs.list) :
            LET seg == SegmentOf(query, i)
                e   == attrs.list[i]
            IN  IF HasNeq(seg)
                THEN \E p \in 1..(Len(seg) - 1) :
                        /\ seg[p] = "!" /\ seg[p + 1] = "="
                        /\ ~HasNeq(SubSeq(seg, 1, p))
                        /\ e.Operator = "!="
                        /\ IsTrimOf(e.Key, SubSeq(seg, 1, p - 1))
                        /\ IsTrimOf(e.Value, SubSeq(seg, p + 2, Len(seg)))
                ELSE \E p \in 1..Len(seg) :
                        /\ seg[p] = "="
                        /\ ~HasEq(SubSeq(seg, 1, p - 1))
                        /\ e.Operator = "="
                        /\ IsTrimOf(e.Key, SubSeq(seg, 1, p - 1))
                        /\ IsTrimOf(e.Value, SubSeq(seg, p + 1, Len(seg)))

\* C2 witness: a query with blanks around keys, operators and values was
\* parsed, and a segment holding both "=" and "!=" was split at its "!=".
C2_Witness ==
    /\ op = "parseAttributeQuery"
    /\ \/ /\ query = <<" ", "a", " ", "=", " ", "b", " ", ",", " ", "c", " ", "!", "=", " ", "d", " ">>
          /\ attrs = ParsedAB_CD
       \/ /\ query = <<"a", "=", "!", "=", "a">>
          /\ attrs = [isNil |-> FALSE,
                      list |-> <<AttributeQuery(<<"a", "=">>, <<"a">>, "!=")>>]

(***************************************************************************)
(* Time.  A time.Time is an integer number of ticks since the Unix epoch,  *)
(* TicksPerSecond ticks to the second, so that instants between whole      *)
(* seconds and instants before the epoch exist.  A time.Duration is a      *)
(* number of ticks.                                                        *)
(***************************************************************************)
TicksPerSecond == 2

\* Go's integer division and remainder, which truncate toward zero
GoDiv(a, b) == IF a >= 0 THEN a \div b ELSE -((-a) \div b)
GoRem(a, b) == a - b * GoDiv(a, b)

\* t.Unix(): the whole seconds since the epoch, rounded toward minus infinity
Unix(t) == t \div TicksPerSecond

\* time.Unix(sec, 0).UTC()
TimeUnix(sec) == sec * TicksPerSecond

\* int(d.Seconds()): the float is truncated toward zero
DurationSeconds(d) == GoDiv(d, TicksPerSecond)

Max(a, b) == IF a >= b THEN a ELSE b

(***************************************************************************)
(* Decimal formatting and parsing (fmt %d, strconv.Atoi, strings.Fields).  *)
(***************************************************************************)
DigitChars == <<"0", "1", "2", "3", "4", "5", "6", "7", "8", "9">>

RECURSIVE NatToString(_)
NatToString(n) ==
    IF n < 10 THEN <<DigitChars[n + 1]>>
    ELSE NatToString(n \div 10) \o <<DigitChars[(n % 10) + 1]>>

\* fmt.Sprintf("%d", n), strconv.Itoa(n), strconv.FormatInt(n, 10)
Itoa(n) == IF n < 0 THEN <<"-">> \o NatToString(-n) ELSE NatToString(n)

IsDigit(c) == \E d \in 1..10 : DigitChars[d] = c

DigitValue(c) == (CHOOSE d \in 1..10 : DigitChars[d] = c) - 1

RECURSIVE DigitsValue(_)
DigitsValue(s) ==
    IF s = <<>> THEN 0
    ELSE 10 * DigitsValue(SubSeq(s, 1, Len(s) - 1)) + DigitValue(s[Len(s)])

\* strconv.Atoi(s): an optional sign, then one or more digits
Atoi(s) ==
    LET signed == s # <<>> /\ Head(s) \in {"-", "+"}
        digits == IF signed THEN Tail(s) ELSE s
    IN  IF digits = <<>> \/ \E i \in 1..Len(digits) : ~IsDigit(digits[i])
        THEN [err |-> TRUE, val |-> 0]
        ELSE [err |-> FALSE,
              val |-> IF signed /\ Head(s) = "-" THEN -DigitsValue(digits)
                      ELSE DigitsValue(digits)]

\* strings.Fields(s): the maximal runs of non-blank characters
RECURSIVE Fields(_)
Fields(s) ==
    LET t == TrimLeft(s)
    IN  IF t = <<>> THEN <<>>
        ELSE IF \E i \in 1..Len(t) : IsSpace(t[i])
        THEN LET i == CHOOSE k \in 1..Len(t) :
                         IsSpace(t[k]) /\ \A j \in 1..(k - 1) : ~IsSpace(t[j])
             IN  <<SubSeq(t, 1, i - 1)>> \o Fields(SubSeq(t, i, Len(t)))
        ELSE <<t>>

(***************************************************************************)
(* Bucket interval and padding, utils/utils.go.                            *)
(***************************************************************************)
numOfBuckets == 15

SecondWord == <<"s", "e", "c", "o", "n", "d">>
MinuteWord == <<"m", "i", "n", "u", "t", "e">>
HourWord == <<"h", "o", "u", "r">>
DayWord == <<"d", "a", "y">>

\* a variant without the lower limit of one second
GetIntervalFromDateRange_NoMin(dr) ==
    Itoa(GoDiv(DurationSeconds(dr.End - dr.Start), numOfBuckets)) \o <<" ">> \o SecondWord

\* GetIntervalFromDateRange: about numOfBuckets buckets per range, "<n> second"
GetIntervalFromDateRange(dr) ==
    LET secs == Max(GoDiv(DurationSeconds(dr.End - dr.Start), numOfBuckets), 1)
    IN  Itoa(secs) \o <<" ">> \o SecondWord

\* the seconds of the unit ParseInterval accepts (singular or plural), 0 if none;
\* the interval strings are lower case already, so strings.ToLower changes nothing
UnitSeconds(unit) ==
    IF unit \in {SecondWord, SecondWord \o <<"s">>} THEN 1
    ELSE IF unit \in {MinuteWord, MinuteWord \o <<"s">>} THEN 60
    ELSE IF unit \in {HourWord, HourWord \o <<"s">>} THEN 3600
    ELSE IF unit \in {DayWord, DayWord \o <<"s">>} THEN 24 * 3600
    ELSE 0

\* ParseInterval: "<int> <unit>" to a duration (step, in ticks)
ParseInterval(intervalSQL) ==
    LET parts == Fields(intervalSQL)
    IN  IF Len(parts) # 2 THEN [err |-> TRUE, step |-> 0]
        ELSE LET n == Atoi(parts[1])
             IN  IF n.err \/ n.val <= 0 THEN [err |-> TRUE, step |-> 0]
                 ELSE IF UnitSeconds(parts[2]) = 0 THEN [err |-> TRUE, step |-> 0]
                 ELSE [err |-> FALSE,
                       step |-> n.val * UnitSeconds(parts[2]) * TicksPerSecond]

\* a variant that rounds the seconds toward minus infinity
AlignToInterval_Floor(t, step) ==
    LET secs == GoDiv(step, TicksPerSecond)
    IN  TimeUnix((Unix(t) \div secs) * secs)

\* AlignToInterval: unix - (unix % secs), with Go's remainder
AlignToInterval(t, step) ==
    LET secs == GoDiv(step, TicksPerSecond)
        unix == Unix(t)
        alignedUnix == unix - GoRem(unix, secs)
    IN  TimeUnix(alignedUnix)

\* the padding loop: for ts := aligned; !ts.After(End); ts = ts.Add(step)
RECURSIVE PadLoop(_, _, _, _)
PadLoop(ts, end, step, vals) ==
    IF ts > end THEN <<>>
    ELSE <<[Timestamp |-> ts,
            Value |-> IF ts \in DOMAIN vals THEN vals[ts] ELSE 0]>>
         \o PadLoop(ts + step, end, step, vals)

\* PadQueryResult over the (timestamp -> value) map scanned from the rows
PadQueryResult(vals, intervalSQL, dr) ==
    LET p == ParseInterval(intervalSQL)
    IN  IF p.err THEN [err |-> TRUE, series |-> <<>>]
        ELSE [err |-> FALSE,
              series |-> PadLoop(AlignToInterval(dr.Start, p.step), dr.End, p.step, vals)]

(***************************************************************************)
(* The store's side of the series queries.                                 *)
(***************************************************************************)

\* toStartOfInterval(ts, INTERVAL n unit): the start of the bucket holding ts
toStartOfInterval(ts, step) == (ts \div step) * step

\* toDateTime(start_time_unix_nano / 1e9): a DateTime holds whole seconds
toDateTime(ts) == TimeUnix(ts \div TicksPerSecond)

\* SELECT bucket, count() ... GROUP BY bucket over the selected rows
CountByBucket(sel, bucketOf) ==
    LET buckets == { bucketOf[i] : i \in sel }
    IN  [b \in buckets |-> Cardinality({ i \in sel : bucketOf[i] = b })]

RECURSIVE SumOver(_, _)
SumOver(f, S) ==
    IF S = {} THEN 0
    ELSE LET x == CHOOSE y \in S : TRUE IN f[x] + SumOver(f, S \ {x})

\* SELECT bucket, avg(duration) ... GROUP BY bucket; durations in ticks, the
\* average kept to the whole tick
AvgByBucket(sel, bucketOf, duration) ==
    LET buckets == { bucketOf[i] : i \in sel }
    IN  [b \in buckets |->
            LET g == { i \in sel : bucketOf[i] = b }
            IN  SumOver(duration, g) \div Cardinality(g)]

\* the values quantile(p)(duration) ... GROUP BY ts may give: per bucket a
\* value from the least to the greatest duration of the bucket, the
\* quantile of ClickHouse being an estimate
QuantileByBucket(sel, bucketOf, duration) ==
    LET buckets == { bucketOf[i] : i \in sel }
        durations == { duration[i] : i \in sel }
        least(b) == CHOOSE d \in durations :
                       /\ \E i \in sel : bucketOf[i] = b /\ duration[i] = d
                       /\ \A i \in sel : bucketOf[i] = b => d <= duration[i]
        greatest(b) == CHOOSE d \in durations :
                          /\ \E i \in sel : bucketOf[i] = b /\ duration[i] = d
                          /\ \A i \in sel : bucketOf[i] = b => d >= duration[i]
    IN  { f \in [buckets -> UNION { least(b)..greatest(b) : b \in buckets }] :
             \A b \in buckets : f[b] >= least(b) /\ f[b] <= greatest(b) }

(***************************************************************************)
(* The series operations of the query engine, api/service.go.              *)
(***************************************************************************)
MaxRows == 2
MaxRowSeconds == 1
MaxStartSeconds == 1

\* range lengths around the limits of the interval choice, in ticks
Totals ==
    { -TicksPerSecond, 0, 1,
      14 * TicksPerSecond, 29 * TicksPerSecond + 1, 30 * TicksPerSecond,
      45 * TicksPerSecond, 59 * TicksPerSecond, 60 * TicksPerSecond,
      4 * 3600 * TicksPerSecond, 4 * 3600 * TicksPerSecond + 1,
      24 * 3600 * TicksPerSecond, 24 * 3600 * TicksPerSecond + 1 }

DateRanges ==
    { [Start |-> a, End |-> a + d] :
        a \in (-MaxStartSeconds * TicksPerSecond)..(MaxStartSeconds * TicksPerSecond),
        d \in Totals }

\* a stored row, as far as the series read it: start and end time; the rows
\* that start on a whole second last one second, the others no time at all
RowKinds ==
    { [start |-> a,
       end |-> IF a % TicksPerSecond = 0 THEN a + TicksPerSecond ELSE a] :
        a \in (-MaxRowSeconds * TicksPerSecond)..(MaxRowSeconds * TicksPerSecond) }

RowLess(r1, r2) ==
    r1.start < r2.start \/ (r1.start = r2.start /\ r1.end <= r2.end)

\* the table contents the series are computed over
StoredRows ==
    { rs \in UNION { [1..n -> RowKinds] : n \in 0..MaxRows } :
        \A i \in 1..(Len(rs) - 1) : RowLess(rs[i], rs[i + 1]) }

InitSeries ==
    /\ op = "none"
    /\ ParserIdle
    /\ rows \in StoredRows
    /\ dateRange \in DateRanges
    /\ interval = <<>>
    /\ series = <<>>
    /\ err = FALSE
    /\ IngestIdle
    /\ AttrsIdle
    /\ ApiIdle

\* GetTraceCounts (GET /api/metrics/traces)
GetTraceCounts ==
    /\ op = "none"
    /\ LET intervalSQL == GetIntervalFromDateRange(dateRange)
           intervalDur == ParseInterval(intervalSQL)
           sel == { i \in DOMAIN rows :
                       rows[i].start >= dateRange.Start /\ rows[i].start <= dateRange.End }
           bucketOf == [i \in sel |-> toStartOfInterval(rows[i].start, intervalDur.step)]
           counts == CountByBucket(sel, bucketOf)
           alignedStart == AlignToInterval(dateRange.Start, intervalDur.step)
       IN  /\ interval' = intervalSQL
           /\ err' = intervalDur.err
           /\ series' = IF intervalDur.err THEN <<>>
                        ELSE PadLoop(alignedStart, dateRange.End, intervalDur.step, counts)
    /\ op' = "GetTraceCounts"
    /\ UNCHANGED <<rows, dateRange>>
    /\ UNCHANGED parserVars
    /\ UNCHANGED ingestVars
    /\ UNCHANGED attrVars
    /\ UNCHANGED apiVars

\* the rows of the stats sub-query of a search with an empty query string
StatsRows == { i \in DOMAIN rows :
                  rows[i].start >= dateRange.Start /\ rows[i].end <= dateRange.End }

\* getTraceCountForQuery, the count series embedded in a search response.  A
\* DateTime has no value before the epoch: ranges from the epoch on
SearchTraceCount ==
    /\ op = "none"
    /\ dateRange.Start >= 0
    /\ LET intervalSQL == GetIntervalFromDateRange(dateRange)
           step == ParseInterval(intervalSQL).step
           bucketOf == [i \in StatsRows |-> toStartOfInterval(toDateTime(rows[i].start), step)]
           cResult == PadQueryResult(CountByBucket(StatsRows, bucketOf), intervalSQL, dateRange)
       IN  /\ interval' = intervalSQL
           /\ err' = cResult.err
           /\ series' = cResult.series
    /\ op' = "getTraceCountForQuery"
    /\ UNCHANGED <<rows, dateRange>>
    /\ UNCHANGED parserVars
    /\ UNCHANGED ingestVars
    /\ UNCHANGED attrVars
    /\ UNCHANGED apiVars

\* GetAvgDuration (GET /api/metrics/avg)
GetAvgDuration ==
    /\ op = "none"
    /\ IF dateRange.End <= dateRange.Start
       THEN /\ err' = TRUE
            /\ series' = <<>>
            /\ UNCHANGED interval
       ELSE LET intervalSQL == GetIntervalFromDateRange(dateRange)
                step == ParseInterval(intervalSQL)
                bucketOf == [i \in StatsRows |->
                                toStartOfInterval(toDateTime(rows[i].start), step.step)]
                duration == [i \in StatsRows |-> rows[i].end - rows[i].start]
                vals == AvgByBucket(StatsRows, bucketOf, duration)
                aligned == AlignToInterval(dateRange.Start, step.step)
            IN  /\ interval' = intervalSQL
                /\ err' = step.err
                /\ series' = IF step.err THEN <<>>
                             ELSE PadLoop(aligned, dateRange.End, step.step, vals)
    /\ op' = "GetAvgDuration"
    /\ UNCHANGED <<rows, dateRange>>
    /\ UNCHANGED parserVars
    /\ UNCHANGED ingestVars
    /\ UNCHANGED attrVars
    /\ UNCHANGED apiVars

\* GetPercentileSeries (GET /api/metrics/p).  The percentile is clamped to
\* 0..100 and only chooses the quantile, which the model leaves open
GetPercentileSeries ==
    /\ op = "none"
    /\ IF dateRange.End <= dateRange.Start
       THEN /\ err' = TRUE
            /\ series' = <<>>
            /\ UNCHANGED interval
       ELSE LET intervalSQL == GetIntervalFromDateRange(dateRange)
                bucketOf == [i \in StatsRows |->
                                toStartOfInterval(toDateTime(rows[i].start),
                                                  ParseInterval(intervalSQL).step)]
                duration == [i \in StatsRows |-> rows[i].end - rows[i].start]
            IN  \E vals \in QuantileByBucket(StatsRows, bucketOf, duration) :
                   LET padded == PadQueryResult(vals, intervalSQL, dateRange)
                   IN  /\ interval' = intervalSQL
                       /\ err' = padded.err
                       /\ series' = padded.series
    /\ op' = "GetPercentileSeries"
    /\ UNCHANGED <<rows, dateRange>>
    /\ UNCHANGED parserVars
    /\ UNCHANGED ingestVars
    /\ UNCHANGED attrVars
    /\ UNCHANGED apiVars

NextSeries == GetTraceCounts \/ SearchTraceCount \/ GetAvgDuration \/ GetPercentileSeries

SpecSeries == InitSeries /\ [][NextSeries]_vars

(***************************************************************************)
(* The interval choice of the earlier receiver package (its service file), *)
(* which api/service.go no longer calls.                                   *)
(***************************************************************************)
OneSecond == <<"1", " ">> \o SecondWord
OneMinute == <<"1", " ">> \o MinuteWord
OneHour == <<"1", " ">> \o HourWord
OneDay == <<"1", " ">> \o DayWord

getIntervalFromDateRange(dr) ==
    LET totalDur == dr.End - dr.Start
        minute == 60 * TicksPerSecond
        hour == 3600 * TicksPerSecond
        day == 24 * hour
        month == 30 * day
    IN  IF totalDur < minute THEN OneSecond
        ELSE IF totalDur >= minute /\ totalDur <= 4 * hour THEN OneMinute
        ELSE IF totalDur >= hour /\ totalDur <= day THEN OneHour
        ELSE IF totalDur >= day /\ totalDur <= month THEN OneDay
        ELSE OneDay

(***************************************************************************)
(* Properties of the series.                                               *)
(***************************************************************************)
SeriesOps == {"GetTraceCounts", "getTraceCountForQuery", "GetAvgDuration", "GetPercentileSeries"}

\* a series operation ran and returned a series
SeriesReturned == op \in SeriesOps /\ ~err

\* the step of the interval the operation chose, in ticks
StepTicks == ParseInterval(interval).step

\* the shape the documentation gives a padded series over [a, b] with step d
PaddedShape(a, b, d) ==
    /\ series # <<>>
    /\ series[1].Timestamp % d = 0
    /\ series[1].Timestamp <= a
    /\ a - series[1].Timestamp < d
    /\ \A i \in 1..(Len(series) - 1) :
          series[i + 1].Timestamp = series[i].Timestamp + d
    /\ series[Len(series)].Timestamp <= b
    /\ Len(series) = (((b \div d) * d - series[1].Timestamp) \div d) + 1

\* C3: every padded series over a range [a, b] with step d starts at a aligned
\* downward to a multiple of d since the epoch (first <= a, a - first < d),
\* advances by exactly d, ends at or before b and has
\* floor((alignedEnd - alignedStart) / d) + 1 points, whatever the range start.
C3_PaddedSeriesShape ==
    (SeriesReturned /\ dateRange.End >= dateRange.Start) =>
        PaddedShape(dateRange.Start, dateRange.End, StepTicks)

\* The shape of C3 for the ranges that start at or after the epoch.
PaddedSeriesShapeFromEpoch ==
    (SeriesReturned /\ dateRange.End >= dateRange.Start /\ dateRange.Start >= 0) =>
        PaddedShape(dateRange.Start, dateRange.End, StepTicks)

RECURSIVE SumValues(_)
SumValues(sq) == IF sq = <<>> THEN 0 ELSE Head(sq).Value + SumValues(Tail(sq))

\* the number of stored rows the count query of the operation selects
RowsInFilter ==
    IF op = "GetTraceCounts"
    THEN Cardinality({ i \in DOMAIN rows :
                          rows[i].start >= dateRange.Start /\ rows[i].start <= dateRange.End })
    ELSE Cardinality(StatsRows)

\* C4: the padded count series of GetTraceCounts, and the count series embedded
\* in a search, sum to the number N of stored rows its time filter selects: no
\* bucket of the store is dropped by the padding.
C4_CountSeriesSum ==
    (op \in {"GetTraceCounts", "getTraceCountForQuery"} /\ ~err) =>
        SumValues(series) = RowsInFilter

\* The sum of C4 for the ranges that start at or after the epoch.
CountSeriesSumFromEpoch ==
    (op \in {"GetTraceCounts", "getTraceCountForQuery"} /\ ~err /\ dateRange.Start >= 0) =>
        SumValues(series) = RowsInFilter

\* the operation got as far as choosing an interval
IntervalChosen ==
    \/ op \in {"GetTraceCounts", "getTraceCountForQuery"}
    \/ op \in {"GetAvgDuration", "GetPercentileSeries"} /\ dateRange.End > dateRange.Start

\* the table of the documentation: four fixed intervals by total = end - start
TableInterval(total) ==
    IF total < 60 * TicksPerSecond THEN OneSecond
    ELSE IF total <= 4 * 3600 * TicksPerSecond THEN OneMinute
    ELSE IF total <= 24 * 3600 * TicksPerSecond THEN OneHour
    ELSE OneDay

WholeSeconds(total) == IF total >= 0 THEN total \div TicksPerSecond ELSE 0
BucketSeconds(total) ==
    IF WholeSeconds(total) < 2 * 15 THEN 1 ELSE WholeSeconds(total) \div 15

MaxRequests == 2

\* the payload with sh[i][j] spans in group j of resource-spans entry i
PayloadOfShape(sh) ==
    [i \in 1..Len(sh) |->
        [j \in 1..Len(sh[i]) |->
            [k \in 1..sh[i][j] |-> [span_id |-> <<i, j, k>>]]]]

PayloadShapes ==
    { <<>>,
      << <<>> >>,
      << <<0>> >>,
      << <<1>> >>,
      << <<2>> >>,
      << <<1, 0, 2>> >>,
      << <<1>>, <<1>> >>,
      << <<2, 1>>, <<>>, <<1>> >> }

Payloads == { PayloadOfShape(sh) : sh \in PayloadShapes }

ContentTypes == {"application/x-protobuf", "application/json", "text/plain"}

\* what the body is: OTLP protobuf, OTLP JSON, JSON of the old format that the
\* upgrade can repair, or anything else
Formats == {"protobuf", "json", "legacyjson", "other"}

\* proto.Unmarshal(body, &req)
protoUnmarshal(body) == body.format = "protobuf"

\* protojson.Unmarshal(body, &req)
protojsonUnmarshal(body) == body.format = "json"

\* formatOldOTELData(body, &req): json.Unmarshal, the upgrade, and the tolerant
\* protojson decode of the result
formatOldOTELData(body) == body.format \in {"json", "legacyjson"}

\* the requests a client can send; a body that no decoder of its content type
\* accepts, or that cannot be read, carries no payload
Decodable(r) ==
    /\ r.bodyRead
    /\ \/ r.contentType = "application/x-protobuf" /\ r.format = "protobuf"
       \/ r.contentType = "application/json" /\ r.format \in {"json", "legacyjson"}

Requests ==
    { r \in [contentType : ContentTypes, bodyRead : BOOLEAN,
             format : Formats, payload : Payloads, cancelled : {FALSE}] :
        /\ ~Decodable(r) => r.payload = <<>>
        /\ ~r.bodyRead => r.format = "other" }

\* a variant of the dispatch without the old-format fallback
DecodeRequest_NoFallback(r) ==
    IF ~r.bodyRead THEN [status |-> 400, decoded |-> FALSE]
    ELSE IF r.contentType = "application/x-protobuf"
    THEN IF protoUnmarshal(r) THEN [status |-> 0, decoded |-> TRUE]
         ELSE [status |-> 400, decoded |-> FALSE]
    ELSE IF r.contentType = "application/json"
    THEN IF protojsonUnmarshal(r) THEN [status |-> 0, decoded |-> TRUE]
         ELSE [status |-> 400, decoded |-> FALSE]
    ELSE [status |-> 415, decoded |-> FALSE]

\* ingestTraceHTTPRequest up to the call of ingestTrace: read the body, then
\* dispatch by Content-Type (the route is registered for POST only)
DecodeRequest(r) ==
    IF ~r.bodyRead THEN [status |-> 400, decoded |-> FALSE]
    ELSE IF r.contentType = "application/x-protobuf"
    THEN IF protoUnmarshal(r) THEN [status |-> 0, decoded |-> TRUE]
         ELSE [status |-> 400, decoded |-> FALSE]
    ELSE IF r.contentType = "application/json"
    THEN IF protojsonUnmarshal(r) THEN [status |-> 0, decoded |-> TRUE]
         ELSE IF formatOldOTELData(r) THEN [status |-> 0, decoded |-> TRUE]
         ELSE [status |-> 400, decoded |-> FALSE]
    ELSE [status |-> 415, decoded |-> FALSE]

\* the scope-spans groups of a request in the order the loops of ingestTrace
\* visit them
RECURSIVE GroupsFrom(_, _, _)
GroupsFrom(r, i, j) ==
    IF i > Len(r) THEN <<>>
    ELSE IF j > Len(r[i]) THEN GroupsFrom(r, i + 1, 1)
    ELSE <<[rs |-> i, ss |-> j]>> \o GroupsFrom(r, i, j + 1)

Groups(r) == GroupsFrom(r, 1, 1)

\* the []utils.Span ingestTrace builds for one group: one per span, carrying
\* the scope and the resource of the group
BuildSpans(r, grp) ==
    [k \in 1..Len(r[grp.rs][grp.ss]) |->
        [span_id |-> r[grp.rs][grp.ss][k].span_id,
         scope |-> <<grp.rs, grp.ss>>,
         resource |-> grp.rs]]

\* a variant of the append loop that misses the first span
AppendedRows_SkipFirst(spans) == Tail(spans)

\* the rows batch.Append adds to the batch: one per span, in order
AppendedRows(spans) == spans

\* what the store can answer to a batch
StoreOutcomes == {"ok", "prepare", "append", "send"}

\* a variant that sends the rows appended before a failed Append
InsertDenormalizedSpans_SendsAppended(spans, outcome, landed) ==
    IF Len(spans) = 0
    THEN [err |-> FALSE, stored |-> <<>>, batch |-> <<>>]
    ELSE IF outcome = "prepare"
    THEN [err |-> TRUE, stored |-> <<>>, batch |-> <<"prepare failed">>]
    ELSE IF outcome = "append"
    THEN [err |-> TRUE,
          stored |-> SubSeq(AppendedRows(spans), 1, Len(spans) - 1),
          batch |-> <<"append failed">>]
    ELSE IF outcome = "send"
    THEN [err |-> TRUE,
          stored |-> IF landed THEN AppendedRows(spans) ELSE <<>>,
          batch |-> <<"send failed">>]
    ELSE [err |-> FALSE, stored |-> AppendedRows(spans), batch |-> <<"sent">>]

\* InsertDenormalizedSpans: nothing for an empty list; else prepare the batch,
\* append a row per span, send.  Yields the error, the rows that reached the
\* table and the record of the batch.  After a failed Send the store may or
\* may not hold the rows (landed).
InsertDenormalizedSpans(spans, outcome, landed) ==
    IF Len(spans) = 0
    THEN [err |-> FALSE, stored |-> <<>>, batch |-> <<>>]
    ELSE IF outcome = "prepare"
    THEN [err |-> TRUE, stored |-> <<>>, batch |-> <<"prepare failed">>]
    ELSE IF outcome = "append"
    THEN [err |-> TRUE, stored |-> <<>>, batch |-> <<"append failed">>]
    ELSE IF outcome = "send"
    THEN [err |-> TRUE,
          stored |-> IF landed THEN AppendedRows(spans) ELSE <<>>,
          batch |-> <<"send failed">>]
    ELSE [err |-> FALSE, stored |-> AppendedRows(spans), batch |-> <<"sent">>]

\* a variant of the handler that goes on after a failed insert
AfterInsert_IgnoreError(failed) == "ingest"

\* where the handler stands after an insert: ingestTrace returns the error at
\* once and the handler panics on it; net/http recovers the panic of a handler
\* and closes the connection, so no response is written
AfterInsert(failed) == IF failed THEN "panicked" ELSE "ingest"

\* the context ingestTrace hands to every insert: context.Background(), which
\* is never cancelled, whatever happened to the request r
IngestContext(r) == [cancelled |-> FALSE]

\* what the store can answer to a batch under a context: a batch whose context
\* is cancelled is not sent
OutcomesUnder(ctx) == IF ctx.cancelled THEN {"prepare", "send"} ELSE StoreOutcomes

InitIngest ==
    /\ op = "none"
    /\ ParserIdle
    /\ SeriesIdle
    /\ rows = <<>>
    /\ IngestIdle
    /\ AttrsIdle
    /\ ApiIdle

\* a request arrives and is read, decoded and either rejected or handed on
ReceiveRequest ==
    /\ pc \in {"idle", "done", "panicked"}
    /\ served < MaxRequests
    /\ \E r \in Requests :
          LET d == DecodeRequest(r)
          IN  /\ request' = r
              /\ req' = IF d.decoded THEN r.payload ELSE <<>>
              /\ status' = d.status
              /\ pc' = IF d.decoded THEN "ingest" ELSE "done"
    /\ groupIdx' = 1
    /\ batches' = <<>>
    /\ rows0' = rows
    /\ served' = served + 1
    /\ UNCHANGED <<op, rows>>
    /\ UNCHANGED parserVars
    /\ UNCHANGED seriesVars
    /\ UNCHANGED attrVars
    /\ UNCHANGED apiVars

\* one turn of the loops of ingestTrace whose insert returns no error
InsertGroup ==
    /\ pc = "ingest"
    /\ groupIdx <= Len(Groups(req))
    /\ \E outcome \in OutcomesUnder(IngestContext(request)), landed \in BOOLEAN :
          LET spans == BuildSpans(req, Groups(req)[groupIdx])
              r == InsertDenormalizedSpans(spans, outcome, landed)
          IN  /\ ~r.err
              /\ rows' = rows \o r.stored
              /\ batches' = batches \o
                    [b \in 1..Len(r.batch) |-> [group |-> groupIdx, result |-> r.batch[b]]]
              /\ pc' = AfterInsert(FALSE)
    /\ groupIdx' = groupIdx + 1
    /\ UNCHANGED <<op, request, req, status, rows0, served>>
    /\ UNCHANGED parserVars
    /\ UNCHANGED seriesVars
    /\ UNCHANGED attrVars
    /\ UNCHANGED apiVars

\* one turn of the loops of ingestTrace whose insert returns an error
InsertGroupFails ==
    /\ pc = "ingest"
    /\ groupIdx <= Len(Groups(req))
    /\ \E outcome \in OutcomesUnder(IngestContext(request)), landed \in BOOLEAN :
          LET spans == BuildSpans(req, Groups(req)[groupIdx])
              r == InsertDenormalizedSpans(spans, outcome, landed)
          IN  /\ r.err
              /\ rows' = rows \o r.stored
              /\ batches' = batches \o
                    [b \in 1..Len(r.batch) |-> [group |-> groupIdx, result |-> r.batch[b]]]
              /\ pc' = AfterInsert(TRUE)
              /\ groupIdx' = IF AfterInsert(TRUE) = "ingest" THEN groupIdx + 1 ELSE groupIdx
    /\ UNCHANGED <<op, request, req, status, rows0, served>>
    /\ UNCHANGED parserVars
    /\ UNCHANGED seriesVars
    /\ UNCHANGED attrVars
    /\ UNCHANGED apiVars

\* ingestTrace returned nil: the empty ExportTraceServiceResponse, status 200
RespondOK ==
    /\ pc = "ingest"
    /\ groupIdx > Len(Groups(req))
    /\ status' = 200
    /\ pc' = "done"
    /\ UNCHANGED <<op, rows, request, req, groupIdx, batches, rows0, served>>
    /\ UNCHANGED parserVars
    /\ UNCHANGED seriesVars
    /\ UNCHANGED attrVars
    /\ UNCHANGED apiVars

\* the client goes away while the handler runs: net/http cancels the context
\* of the request
CancelRequest ==
    /\ pc = "ingest"
    /\ ~request.cancelled
    /\ request' = [request EXCEPT !.cancelled = TRUE]
    /\ UNCHANGED <<op, rows, pc, req, groupIdx, status, batches, rows0, served>>
    /\ UNCHANGED parserVars
    /\ UNCHANGED seriesVars
    /\ UNCHANGED attrVars
    /\ UNCHANGED apiVars

NextIngest ==
    ReceiveRequest \/ InsertGroup \/ InsertGroupFails \/ RespondOK \/ CancelRequest

SpecIngest == InitIngest /\ [][NextIngest]_vars

(***************************************************************************)
(* Properties of the receiver.                                             *)
(***************************************************************************)
\* a request has been received and taken through the dispatch
Dispatched == served > 0

\* ingestTrace was never entered for the current request: no turn of its
\* loops was taken, no batch prepared and the table is as it was
StoreUntouched ==
    /\ pc = "done"
    /\ groupIdx = 1
    /\ batches = <<>>
    /\ rows = rows0

\* the request went on to ingestTrace
ReachedIngest == pc \in {"ingest", "panicked"} \/ status = 200

\* what the dispatch promises for a request
DispatchOutcome ==
    /\ (request.contentType = "application/x-protobuf" /\ ~protoUnmarshal(request))
          => status = 400
    /\ request.contentType = "application/json"
          => (status = 400 <=> (~protojsonUnmarshal(request) /\ ~formatOldOTELData(request)))
    /\ request.contentType \notin {"application/x-protobuf", "application/json"}
          => status = 415
    /\ status \in {400, 415} => StoreUntouched
    /\ ReachedIngest =>
          \/ request.contentType = "application/x-protobuf" /\ protoUnmarshal(request)
          \/ request.contentType = "application/json"
                /\ (protojsonUnmarshal(request) \/ formatOldOTELData(request))

\* C6 (as stated): the outcome of the handler is determined by Content-Type
\* and decodability alone: protobuf that does not decode gives 400, JSON gives
\* 400 only when both decodes fail, any other Content-Type gives 415, a 400 or
\* 415 never touches the store, and only a decoded request reaches ingestTrace.
C6_DispatchByContentType == Dispatched => DispatchOutcome

\* C6 (amended): the same for every request whose body could be read; a
\* request whose body cannot be read gets 400 whatever its Content-Type, and
\* the store is not touched.
C6_DispatchOfReadBody ==
    Dispatched =>
        /\ request.bodyRead => DispatchOutcome
        /\ ~request.bodyRead => (status = 400 /\ StoreUntouched)

\* old-format JSON, which only the fallback decodes, reached ingestTrace after
\* an earlier request had written rows
C6_Witness ==
    /\ served = 2
    /\ request.contentType = "application/json"
    /\ request.format = "legacyjson"
    /\ status = 200
    /\ rows0 # <<>>
    /\ Len(rows) > Len(rows0)

\* some batch of the current request got an error from the store
StoreFailed == \E b \in DOMAIN batches : batches[b].result # "sent"

\* C7: when the store returns an error for a batch of a decoded request
\* (prepare, append or send), the request is answered with a 5xx status.
C7_StoreErrorGives5xx == StoreFailed => status \in 500..599

\* the batches of the current request recorded for group n
BatchesOf(n) == { b \in DOMAIN batches : batches[b].group = n }

\* the number of spans of group n of the current request
SpansOf(n) == Len(req[Groups(req)[n].rs][Groups(req)[n].ss])

\* C8: a 200 is only there when the batch of every non-empty scope-spans group
\* of the request has been sent successfully, and never while a batch of the
\* request is unsent or failed.
C8_OKOnlyAfterAllSent ==
    status = 200 =>
        /\ pc = "done"
        /\ groupIdx > Len(Groups(req))
        /\ ~StoreFailed
        /\ \A n \in 1..Len(Groups(req)) :
              SpansOf(n) > 0 =>
                 /\ Cardinality(BatchesOf(n)) = 1
                 /\ \A b \in BatchesOf(n) : batches[b].result = "sent"

\* a 200 for a request with several batches and an empty group among them
C8_Witness ==
    /\ status = 200
    /\ Len(batches) >= 2
    /\ Len(batches) < Len(Groups(req))

\* the rows the table gained since the current request arrived
Gained == SubSeq(rows, Len(rows0) + 1, Len(rows))

\* the number of spans of the current request
RECURSIVE SpanTotal(_)
SpanTotal(n) == IF n = 0 THEN 0 ELSE SpansOf(n) + SpanTotal(n - 1)

\* C9: the table only grows at its end, and after a successful ingest it has
\* gained exactly one row for each span of each group of each resource-spans
\* entry, and nothing else: empty groups write nothing, and a request ingested
\* again adds its rows again.
C9_OneRowPerSpan ==
    /\ Len(rows0) <= Len(rows)
    /\ SubSeq(rows, 1, Len(rows0)) = rows0
    /\ status = 200 =>
          /\ Len(Gained) = SpanTotal(Len(Groups(req)))
          /\ \A n \in 1..Len(Groups(req)) :
                \A k \in 1..SpansOf(n) :
                   Cardinality({ m \in DOMAIN Gained :
                       Gained[m].span_id = req[Groups(req)[n].rs][Groups(req)[n].ss][k].span_id }) = 1

\* the same request ingested twice: the table holds its rows twice
C9_Witness ==
    /\ served = 2
    /\ status = 200
    /\ Len(rows0) >= 3
    /\ Gained = rows0
    /\ Len(batches) < Len(Groups(req))

(***************************************************************************)
(* The payload normaliser: extractAttributes, collector/service.go.        *)
(*                                                                         *)
(* An AnyValue is a record with its variant in kind and one field per      *)
(* variant.  kind "nil" is the nil *AnyValue of a KeyValue without value,  *)
(* kind "unset" an AnyValue none of whose variants is set.  A double is    *)
(* given in halves (num = 3 is 1.5), bytes as numbers in 0..255.           *)
(***************************************************************************)
MaxArrayLen == 2

Blank ==
    [kind |-> "unset", str |-> <<>>, num |-> 0, flag |-> FALSE,
     bytes |-> <<>>, items |-> <<>>, entries |-> <<>>]

NilValue == [Blank EXCEPT !.kind = "nil"]
StringValue(s) == [Blank EXCEPT !.kind = "string", !.str = s]
IntValue(n) == [Blank EXCEPT !.kind = "int", !.num = n]
DoubleValue(h) == [Blank EXCEPT !.kind = "double", !.num = h]
BoolValue(b) == [Blank EXCEPT !.kind = "bool", !.flag = b]
BytesValue(bs) == [Blank EXCEPT !.kind = "bytes", !.bytes = bs]
ArrayValue(vs) == [Blank EXCEPT !.kind = "array", !.items = vs]
KvlistValue(kvs) == [Blank EXCEPT !.kind = "kvlist", !.entries = kvs]

KeyValue(k, v) == [key |-> k, value |-> v]

\* strconv.FormatInt(n, 10)
FormatInt(n) == Itoa(n)

\* strconv.FormatFloat(f, 'f', -1, 64) of the double h/2
FormatFloat(h) ==
    IF GoRem(h, 2) = 0 THEN Itoa(GoDiv(h, 2))
    ELSE (IF h < 0 THEN <<"-">> ELSE <<>>)
            \o NatToString(GoDiv(IF h < 0 THEN -h ELSE h, 2)) \o <<".", "5">>

\* strconv.FormatBool(b)
FormatBool(b) == IF b THEN <<"t", "r", "u", "e">> ELSE <<"f", "a", "l", "s", "e">>

\* the alphabet of base64.StdEncoding
Base64Chars ==
    << "A", "B", "C", "D", "E", "F", "G", "H", "I", "J", "K", "L", "M",
       "N", "O", "P", "Q", "R", "S", "T", "U", "V", "W", "X", "Y", "Z",
       "a", "b", "c", "d", "e", "f", "g", "h", "i", "j", "k", "l", "m",
       "n", "o", "p", "q", "r", "s", "t", "u", "v", "w", "x", "y", "z",
       "0", "1", "2", "3", "4", "5", "6", "7", "8", "9", "+", "/" >>

Base64Char(n) == Base64Chars[n + 1]

\* base64.StdEncoding.EncodeToString(bs)
RECURSIVE EncodeToString(_)
EncodeToString(bs) ==
    IF Len(bs) = 0 THEN <<>>
    ELSE IF Len(bs) = 1
    THEN << Base64Char(bs[1] \div 4), Base64Char((bs[1] % 4) * 16), "=", "=" >>
    ELSE IF Len(bs) = 2
    THEN << Base64Char(bs[1] \div 4),
            Base64Char((bs[1] % 4) * 16 + bs[2] \div 16),
            Base64Char((bs[2] % 16) * 4), "=" >>
    ELSE << Base64Char(bs[1] \div 4),
            Base64Char((bs[1] % 4) * 16 + bs[2] \div 16),
            Base64Char((bs[2] % 16) * 4 + bs[3] \div 64),
            Base64Char(bs[3] % 64) >>
         \o EncodeToString(SubSeq(bs, 4, Len(bs)))

\* strings.Join(elems, sep)
RECURSIVE Join(_, _)
Join(elems, sep) ==
    IF Len(elems) = 0 THEN <<>>
    ELSE IF Len(elems) = 1 THEN elems[1]
    ELSE elems[1] \o sep \o Join(Tail(elems), sep)

\* encoding/json: a string as a JSON string (of the characters modelled, the
\* quote and the backslash are escaped)
RECURSIVE jsonEscape(_)
jsonEscape(s) ==
    IF Len(s) = 0 THEN <<>>
    ELSE (IF s[1] \in {"\"", "\\"} THEN <<"\\", s[1]>> ELSE <<s[1]>>)
            \o jsonEscape(Tail(s))

jsonString(s) == <<"\"">> \o jsonEscape(s) \o <<"\"">>

\* json.Marshal of a []string
MarshalStrings(values) ==
    <<"[">> \o Join([i \in 1..Len(values) |-> jsonString(values[i])], <<",">>) \o <<"]">>

\* the attribute keys, in the order json.Marshal sorts the keys of a map
KeyOrder == <<"k1", "k2">>

\* json.Marshal of a map[string]string
MarshalMap(mm) ==
    LET keys == SelectSeq(KeyOrder, LAMBDA k : k \in DOMAIN mm)
    IN  <<"{">>
           \o Join([i \in 1..Len(keys) |->
                       jsonString(<<keys[i]>>) \o <<":">> \o jsonString(mm[keys[i]])],
                   <<",">>)
           \o <<"}">>

\* extractSingleValue: the string of a scalar, "" for anything else
extractSingleValue(val) ==
    IF val.kind = "nil" THEN <<>>
    ELSE IF val.kind = "string" THEN val.str
    ELSE IF val.kind = "int" THEN FormatInt(val.num)
    ELSE IF val.kind = "double" THEN FormatFloat(val.num)
    ELSE IF val.kind = "bool" THEN FormatBool(val.flag)
    ELSE IF val.kind = "bytes" THEN EncodeToString(val.bytes)
    ELSE <<>>

\* isSimpleStringArray: every element that is there is a string
isSimpleStringArray(values) ==
    \A i \in 1..Len(values) : values[i].kind \in {"nil", "string"}

\* a variant of the collecting loop that keeps every element
arrayValues_KeepAll(items) ==
    [i \in 1..Len(items) |-> extractSingleValue(items[i])]

\* the loop over arrayVal.Values: the strings of the elements, those that are
\* empty left out
arrayValues(items) ==
    SelectSeq([i \in 1..Len(items) |-> extractSingleValue(items[i])],
              LAMBDA v : v # <<>>)

\* m[k] = v
Put(mm, k, v) == [x \in DOMAIN mm \cup {k} |-> IF x = k THEN v ELSE mm[x]]

\* extractAttributes: the map of the attributes, each value flattened to a
\* string; an attribute without value, of no known variant, or an array none
\* of whose elements has a non-empty string, gets no entry
RECURSIVE extractAttributes(_)
extractAttributes(kvs) ==
    IF Len(kvs) = 0 THEN <<>>
    ELSE
      LET mm == extractAttributes(SubSeq(kvs, 1, Len(kvs) - 1))
          kv == kvs[Len(kvs)]
          val == kv.value
      IN  IF val.kind = "nil" THEN mm
          ELSE IF val.kind = "string" THEN Put(mm, kv.key, val.str)
          ELSE IF val.kind = "int" THEN Put(mm, kv.key, FormatInt(val.num))
          ELSE IF val.kind = "double" THEN Put(mm, kv.key, FormatFloat(val.num))
          ELSE IF val.kind = "bool" THEN Put(mm, kv.key, FormatBool(val.flag))
          ELSE IF val.kind = "array"
          THEN LET values == arrayValues(val.items)
               IN  IF Len(values) > 0
                   THEN IF isSimpleStringArray(val.items)
                        THEN Put(mm, kv.key, Join(values, <<",">>))
                        ELSE Put(mm, kv.key, MarshalStrings(values))
                   ELSE mm
          ELSE IF val.kind = "kvlist"
          THEN Put(mm, kv.key, MarshalMap(extractAttributes(val.entries)))
          ELSE IF val.kind = "bytes" THEN Put(mm, kv.key, EncodeToString(val.bytes))
          ELSE mm

\* the values the model draws on
Scalars ==
    { StringValue(<<>>), StringValue(<<"a">>), StringValue(<<"b", "\"">>),
      IntValue(0), IntValue(-12),
      DoubleValue(3),
      BoolValue(TRUE),
      BytesValue(<<77>>), BytesValue(<<77, 97, 110>>) }

ArrayItems == Scalars \cup {Blank, ArrayValue(<<StringValue(<<"a">>)>>)}

RECURSIVE SeqsUpTo(_, _)
SeqsUpTo(S, n) ==
    IF n = 0 THEN {<<>>}
    ELSE LET shorter == SeqsUpTo(S, n - 1)
         IN  shorter \cup { Append(q, x) : q \in { p \in shorter : Len(p) = n - 1 }, x \in S }

Arrays == { ArrayValue(vs) : vs \in SeqsUpTo(ArrayItems, MaxArrayLen) }

Kvlists ==
    { KvlistValue(<<>>),
      KvlistValue(<<KeyValue("k2", IntValue(0)), KeyValue("k1", StringValue(<<"a">>))>>),
      KvlistValue(<<KeyValue("k1", NilValue)>>) }

AnyValues == Scalars \cup Arrays \cup Kvlists \cup {Blank, NilValue}

\* the attribute lists: one attribute of any value, or a second one after it
\* that may carry the same key
AttrLists ==
    { <<KeyValue("k1", v)>> : v \in AnyValues }
       \cup { <<KeyValue("k1", v), KeyValue(k, w)>> :
                  v \in {StringValue(<<"a">>), Blank},
                  k \in {"k1", "k2"},
                  w \in {IntValue(0), NilValue, ArrayValue(<<>>)} }

InitAttrs ==
    /\ op = "none"
    /\ ParserIdle
    /\ SeriesIdle
    /\ rows = <<>>
    /\ IngestIdle
    /\ attrsIn \in AttrLists
    /\ attrsOut = <<>>
    /\ ApiIdle

\* ingestTrace flattens the attributes of a resource or of a span
ExtractAttributes ==
    /\ op = "none"
    /\ op' = "extractAttributes"
    /\ attrsOut' = extractAttributes(attrsIn)
    /\ UNCHANGED <<attrsIn, rows>>
    /\ UNCHANGED parserVars
    /\ UNCHANGED seriesVars
    /\ UNCHANGED ingestVars
    /\ UNCHANGED apiVars

NextAttrs == ExtractAttributes

SpecAttrs == InitAttrs /\ [][NextAttrs]_vars

(***************************************************************************)
(* Properties of the normaliser.                                           *)
(***************************************************************************)
\* extractAttributes has returned for a single attribute
Extracted == op = "extractAttributes" /\ Len(attrsIn) = 1

ScalarKinds == {"string", "int", "double", "bool", "bytes"}

\* the array attribute whose elements are all scalars
ScalarArray(val) ==
    /\ val.kind = "array"
    /\ \A i \in 1..Len(val.items) : val.items[i].kind \in ScalarKinds

AllStrings(val) == \A i \in 1..Len(val.items) : val.items[i].kind = "string"

\* the string of each element, one per element
Flattenings(val) == [i \in 1..Len(val.items) |-> extractSingleValue(val.items[i])]

\* C10: an array whose elements are all strings is stored as the comma-join
\* of all its elements in order, any other array as the JSON list of the
\* strings of its elements, one entry per element, and an attribute is only
\* dropped when its value is of no known variant or absent.
C10_ArrayFlattening ==
    Extracted =>
        LET key == attrsIn[1].key
            val == attrsIn[1].value
        IN  /\ (ScalarArray(val) /\ AllStrings(val)) =>
                  /\ key \in DOMAIN attrsOut
                  /\ attrsOut[key] = Join(Flattenings(val), <<",">>)
            /\ (ScalarArray(val) /\ ~AllStrings(val)) =>
                  /\ key \in DOMAIN attrsOut
                  /\ attrsOut[key] = MarshalStrings(Flattenings(val))
            /\ key \notin DOMAIN attrsOut => val.kind \in {"unset", "nil"}

\* no element of the array has the empty string as its string
NoEmptyItem(val) ==
    /\ Len(val.items) > 0
    /\ \A i \in 1..Len(val.items) : extractSingleValue(val.items[i]) # <<>>

\* the flattening of arrays is as C10 says when the array is not empty and
\* none of its elements is an empty string; an array without such an element
\* is dropped
ArrayFlatteningOfNonEmptyItems ==
    Extracted =>
        LET key == attrsIn[1].key
            val == attrsIn[1].value
        IN  /\ (ScalarArray(val) /\ NoEmptyItem(val) /\ AllStrings(val)) =>
                  /\ key \in DOMAIN attrsOut
                  /\ attrsOut[key] = Join(Flattenings(val), <<",">>)
            /\ (ScalarArray(val) /\ NoEmptyItem(val) /\ ~AllStrings(val)) =>
                  /\ key \in DOMAIN attrsOut
                  /\ attrsOut[key] = MarshalStrings(Flattenings(val))
            /\ key \notin DOMAIN attrsOut =>
                  \/ val.kind \in {"unset", "nil"}
                  \/ val.kind = "array" /\ arrayValues(val.items) = <<>>

(***************************************************************************)
(* The JSON path of the receiver in detail: the document of the body, the  *)
(* two decoders, the upgrade of the old format (formatOldOTELData), and    *)
(* ingestTrace with the content of the rows.                               *)
(*                                                                         *)
(* A document is the list under "resourceSpans".  An entry has its         *)
(* "resource" (or none), the key its groups sit under ("scopeSpans", or    *)
(* "instrumentationLibrarySpans" in the old format) and the groups; a      *)
(* group has its "scope" and its "instrumentationLibrary" (or neither) and *)
(* its spans.  The "value" of an attribute has one of three shapes:        *)
(*   "otlp"    {"stringValue": ...}, the object OTLP JSON defines,         *)
(*   "wrapped" {"Value": {"StringValue": ...}}, the old shape,             *)
(*   "raw"     a bare JSON string, number or boolean.                      *)
(***************************************************************************)
JsonAttr(k, shape, v) == [key |-> k, shape |-> shape, any |-> v]

Absent == [present |-> FALSE, name |-> <<>>, attributes |-> <<>>]
Named(n) == [present |-> TRUE, name |-> n, attributes |-> <<>>]
WithAttributes(as) == [present |-> TRUE, name |-> <<>>, attributes |-> as]

\* the concatenation of a sequence of sequences
RECURSIVE Flatten(_)
Flatten(seqs) == IF Len(seqs) = 0 THEN <<>> ELSE seqs[1] \o Flatten(Tail(seqs))

\* the spans of an entry of a document, over all its groups
SpansOfEntry(rs) == Flatten([j \in 1..Len(rs.groups) |-> rs.groups[j].spans])

\* the attributes in a document: those of the resources and of the spans
AttrsOfEntry(rs) ==
    rs.resource.attributes
       \o Flatten([k \in 1..Len(SpansOfEntry(rs)) |->
                       SpansOfEntry(rs)[k].attributes.attributes])

\* a field of the document that OTLP JSON does not define
UnknownField(rs) ==
    \/ rs.groupsKey # "scopeSpans"
    \/ \E j \in 1..Len(rs.groups) : rs.groups[j].library.present
    \/ \E k \in 1..Len(SpansOfEntry(rs)) : SpansOfEntry(rs)[k].serviceName # <<>>
    \/ \E n \in 1..Len(AttrsOfEntry(rs)) : AttrsOfEntry(rs)[n].shape = "wrapped"

\* an attribute value that is not a JSON object, where the message AnyValue
\* is expected
NotAnObject(rs) == \E n \in 1..Len(AttrsOfEntry(rs)) : AttrsOfEntry(rs)[n].shape = "raw"

\* the KeyValue a decoder makes of an attribute: of the wrapped shape, whose
\* only field it does not know, the tolerant decoder keeps an AnyValue with
\* no variant set
DecodeAttr(a) == KeyValue(a.key, IF a.shape = "otlp" THEN a.any ELSE Blank)

DecodeAttrs(as) == [i \in 1..Len(as) |-> DecodeAttr(as[i])]

DecodeSpan(sp) ==
    [trace_id |-> sp.trace_id, span_id |-> sp.span_id,
     parent_span_id |-> sp.parent_span_id, name |-> sp.name,
     start |-> sp.start, end |-> sp.end, events |-> sp.events,
     attributes |-> DecodeAttrs(sp.attributes.attributes)]

DecodeGroup(ss) ==
    [scope |-> [present |-> ss.scope.present, name |-> ss.scope.name],
     spans |-> [i \in 1..Len(ss.spans) |-> DecodeSpan(ss.spans[i])]]

\* what is under a key the decoder does not know is left out
DecodeEntry(rs) ==
    [resource |-> [present |-> rs.resource.present,
                   attributes |-> DecodeAttrs(rs.resource.attributes)],
     scopeSpans |-> IF rs.groupsKey = "scopeSpans"
                    THEN [i \in 1..Len(rs.groups) |-> DecodeGroup(rs.groups[i])]
                    ELSE <<>>]

DecodeDoc(d) == [i \in 1..Len(d) |-> DecodeEntry(d[i])]

\* protojson.Unmarshal(body, &req): any unknown field is an error
protojsonStrict(d) ==
    IF \E i \in 1..Len(d) : UnknownField(d[i]) \/ NotAnObject(d[i])
    THEN [err |-> TRUE, req |-> <<>>]
    ELSE [err |-> FALSE, req |-> DecodeDoc(d)]

\* protojson.UnmarshalOptions{DiscardUnknown: true}.Unmarshal(normalized, req)
protojsonTolerant(d) ==
    IF \E i \in 1..Len(d) : NotAnObject(d[i])
    THEN [err |-> TRUE, req |-> <<>>]
    ELSE [err |-> FALSE, req |-> DecodeDoc(d)]

\* a variant of normalizeAttributeValue that turns the wrapped shape into the
\* object of OTLP JSON
normalizeAttributeValue_ToOtlp(a) ==
    IF a.shape = "wrapped" /\ a.any.kind \in {"string", "int", "bool", "double"}
    THEN [a EXCEPT !.shape = "otlp"]
    ELSE a

\* normalizeAttributeValue: of the wrapped shape with a string, number or
\* boolean inside, the bare value is returned; anything else is returned as is
normalizeAttributeValue(a) ==
    IF a.shape = "wrapped" /\ a.any.kind \in {"string", "int", "bool", "double"}
    THEN [a EXCEPT !.shape = "raw"]
    ELSE a

\* the service.name the upgrade reads from the resource attributes: the last
\* one that normalises to a string
RECURSIVE serviceNameOf(_)
serviceNameOf(as) ==
    IF Len(as) = 0 THEN <<>>
    ELSE LET a == as[Len(as)]
         IN  IF /\ a.key = "service.name"
                /\ a.shape = "wrapped"
                /\ a.any.kind = "string"
             THEN a.any.str
             ELSE serviceNameOf(SubSeq(as, 1, Len(as) - 1))

\* the upgrade of one span: the service name is injected, the attributes
\* normalised
upgradeSpan(sp, serviceName) ==
    [sp EXCEPT
        !.serviceName = IF serviceName # <<>> THEN serviceName ELSE sp.serviceName,
        !.attributes.attributes =
            [i \in 1..Len(sp.attributes.attributes) |->
                normalizeAttributeValue(sp.attributes.attributes[i])]]

\* the upgrade of one group: a "scope" object is put in when there is none
upgradeGroup(ss, serviceName) ==
    [ss EXCEPT
        !.scope = IF ss.scope.present THEN ss.scope ELSE Named(<<>>),
        !.spans = [i \in 1..Len(ss.spans) |-> upgradeSpan(ss.spans[i], serviceName)]]

\* the upgrade of one entry: the groups are put under "scopeSpans", and the
\* normalised attributes of every span that has an "attributes" list are
\* appended to the attributes of the resource, which is made when missing
upgradeEntry(rs) ==
    LET serviceName == IF rs.resource.present
                       THEN serviceNameOf(rs.resource.attributes) ELSE <<>>
        groups == [i \in 1..Len(rs.groups) |-> upgradeGroup(rs.groups[i], serviceName)]
        withList == SelectSeq(Flatten([j \in 1..Len(groups) |-> groups[j].spans]),
                              LAMBDA sp : sp.attributes.present)
        merged == Flatten([k \in 1..Len(withList) |-> withList[k].attributes.attributes])
    IN  [rs EXCEPT
            !.groupsKey = "scopeSpans",
            !.groups = groups,
            !.resource = IF Len(withList) > 0
                         THEN WithAttributes(rs.resource.attributes \o merged)
                         ELSE rs.resource]

\* formatOldOTELData of a body that is JSON: the upgrade, then the tolerant
\* decode of the result
upgradeAndDecode(d) == protojsonTolerant([i \in 1..Len(d) |-> upgradeEntry(d[i])])

\* case "application/json" of ingestTraceHTTPRequest
DecodeJSON(d) ==
    LET strict == protojsonStrict(d)
    IN  IF ~strict.err THEN strict ELSE upgradeAndDecode(d)

(***************************************************************************)
(* ingestTrace with the content of the rows.  Identifiers are sequences of *)
(* bytes, times are nanoseconds; the names of scopes and services are      *)
(* sequences of characters like the attribute values they are compared     *)
(* with.                                                                   *)
(***************************************************************************)
encodeBytes(b) == EncodeToString(b)

\* a variant of the utils.Span that takes the parent from the span itself
DenormalizedSpan_ParentFromSpan(rs, ss, span) ==
    [trace_id |-> encodeBytes(span.trace_id),
     span_id |-> encodeBytes(span.span_id),
     parent_span_id |-> encodeBytes(span.span_id),
     name |-> span.name,
     start_time_unix_nano |-> span.start,
     end_time_unix_nano |-> span.end,
     scope_name |-> ss.scope.name,
     resource_attributes |-> extractAttributes(rs.resource.attributes),
     span_attributes |-> extractAttributes(span.attributes),
     events |-> span.events]

\* the utils.Span ingestTrace makes of a span, which becomes its row
DenormalizedSpan(rs, ss, span) ==
    [trace_id |-> encodeBytes(span.trace_id),
     span_id |-> encodeBytes(span.span_id),
     parent_span_id |-> encodeBytes(span.parent_span_id),
     name |-> span.name,
     start_time_unix_nano |-> span.start,
     end_time_unix_nano |-> span.end,
     scope_name |-> ss.scope.name,
     resource_attributes |-> extractAttributes(rs.resource.attributes),
     span_attributes |-> extractAttributes(span.attributes),
     events |-> span.events]

\* ingestTrace from group j of entry i on, acc being the rows written and
\* the batches handed to the store so far.  rs.Resource.Attributes and
\* ss.Scope.Name dereference a nil pointer when the message is missing, which
\* panics; storeOk tells whether the store takes the batches.
RECURSIVE ingestTraceFrom(_, _, _, _, _)
ingestTraceFrom(r, i, j, acc, storeOk) ==
    IF i > Len(r) THEN [outcome |-> "ok", rows |-> acc.rows, batches |-> acc.batches]
    ELSE IF ~r[i].resource.present
    THEN [outcome |-> "panic", rows |-> acc.rows, batches |-> acc.batches]
    ELSE IF j > Len(r[i].scopeSpans) THEN ingestTraceFrom(r, i + 1, 1, acc, storeOk)
    ELSE IF ~r[i].scopeSpans[j].scope.present
    THEN [outcome |-> "panic", rows |-> acc.rows, batches |-> acc.batches]
    ELSE LET ss == r[i].scopeSpans[j]
             spans == [k \in 1..Len(ss.spans) |-> DenormalizedSpan(r[i], ss, ss.spans[k])]
             ins == InsertDenormalizedSpans(spans, IF storeOk THEN "ok" ELSE "prepare", FALSE)
             log == [b \in 1..Len(ins.batch) |->
                        [group |-> Len(acc.batches) + 1, result |-> ins.batch[b]]]
             next == [rows |-> acc.rows \o ins.stored, batches |-> acc.batches \o log]
         IN  IF ins.err
             THEN [outcome |-> "error", rows |-> next.rows, batches |-> next.batches]
             ELSE ingestTraceFrom(r, i, j + 1, next, storeOk)

ingestTraceRows(r, storeOk) ==
    ingestTraceFrom(r, 1, 1, [rows |-> <<>>, batches |-> <<>>], storeOk)

\* what POST /v1/traces with Content-Type application/json makes of a
\* document: the status written (0 when the handler panics), the rows and
\* the batches
PostOutcome(d, storeOk) ==
    LET dec == DecodeJSON(d)
    IN  IF dec.err
        THEN [status |-> 400, pc |-> "done", req |-> <<>>, rows |-> <<>>, batches |-> <<>>]
        ELSE LET res == ingestTraceRows(dec.req, storeOk)
             IN  [status |-> IF res.outcome = "ok" THEN 200 ELSE 0,
                  pc |-> IF res.outcome = "ok" THEN "done" ELSE "panicked",
                  req |-> dec.req,
                  rows |-> res.rows,
                  batches |-> res.batches]

\* the format of a document, as the dispatch of the handler sees it
FormatOf(d) ==
    IF ~protojsonStrict(d).err THEN "json"
    ELSE IF ~upgradeAndDecode(d).err THEN "legacyjson"
    ELSE "other"

(***************************************************************************)
(* The documents the model posts.                                          *)
(***************************************************************************)
SvcName == <<"s", "v", "c">>
LibName == <<"l", "i", "b">>

JsonSpan(sid, parent, nm, st, en, evs, as) ==
    [trace_id |-> <<84>>, span_id |-> sid, parent_span_id |-> parent,
     name |-> nm, start |-> st, end |-> en, events |-> evs,
     attributes |-> as, serviceName |-> <<>>]

JsonGroup(scope, library, spans) ==
    [scope |-> scope, library |-> library, spans |-> spans]

JsonEntry(resource, key, groups) ==
    [resource |-> resource, groupsKey |-> key, groups |-> groups]

ServiceNameAttr(shape) == JsonAttr("service.name", shape, StringValue(SvcName))

ResourceOptions ==
    { Absent,
      WithAttributes(<<>>),
      WithAttributes(<<ServiceNameAttr("otlp")>>),
      WithAttributes(<<ServiceNameAttr("wrapped")>>) }

GroupsKeys == {"scopeSpans", "instrumentationLibrarySpans"}

\* the "scope" and the "instrumentationLibrary" of a group
ScopeOptions ==
    { <<Named(LibName), Absent>>,
      <<Named(SvcName), Absent>>,
      <<Absent, Named(LibName)>>,
      <<Absent, Absent>> }

SpanAttrOptions ==
    { Absent,
      WithAttributes(<<>>),
      WithAttributes(<<JsonAttr("a", "otlp", StringValue(<<"x">>))>>),
      WithAttributes(<<JsonAttr("a", "wrapped", StringValue(<<"x">>))>>),
      WithAttributes(<<JsonAttr("a", "wrapped", IntValue(7)),
                       JsonAttr("b", "otlp", StringValue(<<"y">>))>>) }

\* one entry, one group, one span
OneSpanDocs ==
    { << JsonEntry(res, key,
            << JsonGroup(sc[1], sc[2],
                  << JsonSpan(<<1>>, <<>>, "op", 10, 25, <<>>, as) >>) >>) >> :
        res \in ResourceOptions, key \in GroupsKeys,
        sc \in ScopeOptions, as \in SpanAttrOptions }

\* a trace of three spans in two groups, its root with an exception event,
\* two of the spans starting together; and the same in the old format
TraceSpans(shape) ==
    << JsonGroup(Named(LibName), Absent,
          << JsonSpan(<<2>>, <<1>>, "child", 30, 40, <<"log">>,
                      WithAttributes(<<JsonAttr("a", shape, StringValue(<<"x">>))>>)),
             JsonSpan(<<1>>, <<>>, "root", 10, 50, <<"log", "exception">>, Absent) >>),
       JsonGroup(Named(SvcName), Absent,
          << JsonSpan(<<3>>, <<1>>, "child", 30, 35, <<>>, WithAttributes(<<>>)) >>),
       JsonGroup(Named(LibName), Absent, <<>>) >>

TraceDocs ==
    { << JsonEntry(WithAttributes(<<ServiceNameAttr("otlp")>>), "scopeSpans",
                   TraceSpans("otlp")) >>,
      << JsonEntry(WithAttributes(<<ServiceNameAttr("wrapped")>>),
                   "instrumentationLibrarySpans", TraceSpans("otlp")) >>,
      << JsonEntry(WithAttributes(<<>>), "scopeSpans", <<>>),
         JsonEntry(WithAttributes(<<ServiceNameAttr("otlp")>>), "scopeSpans",
                   TraceSpans("otlp")) >>,
      <<>> }

Docs == OneSpanDocs \cup TraceDocs

InitDocs ==
    /\ op = "none"
    /\ ParserIdle
    /\ SeriesIdle
    /\ rows = <<>>
    /\ IngestIdle
    /\ AttrsIdle
    /\ doc \in Docs
    /\ call = NoCall
    /\ reply = NoReply

\* POST /v1/traces with Content-Type application/json and the document as body
PostDocument ==
    /\ pc = "idle"
    /\ \E storeOk \in BOOLEAN :
          LET out == PostOutcome(doc, storeOk)
          IN  /\ status' = out.status
              /\ pc' = out.pc
              /\ req' = out.req
              /\ rows' = rows \o out.rows
              /\ batches' = out.batches
    /\ request' = [contentType |-> "application/json", bodyRead |-> TRUE,
                   format |-> FormatOf(doc), payload |-> <<>>, cancelled |-> FALSE]
    /\ rows0' = rows
    /\ served' = served + 1
    /\ op' = "ingestTraceHTTPRequest"
    /\ UNCHANGED <<groupIdx, doc, call, reply>>
    /\ UNCHANGED parserVars
    /\ UNCHANGED seriesVars
    /\ UNCHANGED attrVars

(***************************************************************************)
(* The reader: the endpoints of api/controller.go with the queries of      *)
(* api/service.go, over the rows of the table.                             *)
(***************************************************************************)
\* the first n elements of a sequence (LIMIT n)
Take(seq, n) == SubSeq(seq, 1, IF Len(seq) < n THEN Len(seq) ELSE n)

\* the orders in which the store may return rows under ORDER BY: every
\* arrangement in which no row comes before one it must follow; rows with
\* equal keys come in any order
\* (column names the sort key, desc the direction)
OrderBy(seq, column, desc) ==
    { q \in { [i \in 1..Len(seq) |-> seq[perm[i]]] : perm \in Permutations(1..Len(seq)) } :
        \A i \in 1..Len(q) : \A j \in (i + 1)..Len(q) :
           IF desc THEN q[i][column] >= q[j][column] ELSE q[i][column] <= q[j][column] }

\* duration_ns / 1000000, kept as the fraction it is
DurationMs(row) == <<row.end_time_unix_nano - row.start_time_unix_nano, 1000000>>

\* json.NewEncoder(w).Encode of a slice: a slice nothing was appended to is
\* nil and is written as null
JsonList(items) == [isNull |-> Len(items) = 0, items |-> items]

\* the answers of a handler: the encoded result, or http.Error with the
\* message of the failure
Ok(b) == [status |-> 200, body |-> b]
Failed(code) == [status |-> code, body |-> <<>>]

ServiceTracesLimit == 100

\* a ServiceTrace as Scan fills it
ServiceTraceOf(row) ==
    [trace_id |-> row.trace_id, name |-> row.name, duration_ms |-> DurationMs(row)]

\* the results GetServiceTraces may return: WHERE scope_name = service
\* ORDER BY start_time_unix_nano DESC LIMIT 100
ServiceTraces(table, service) ==
    { [i \in 1..Len(q) |-> ServiceTraceOf(q[i])] :
        q \in { Take(o, ServiceTracesLimit) :
                  o \in OrderBy(SelectSeq(table, LAMBDA r : r.scope_name = service),
                                "start_time_unix_nano", TRUE) } }

\* a TraceSpan as Scan fills it
TraceSpanOf(row) ==
    [span_id |-> row.span_id, parent_span_id |-> row.parent_span_id,
     name |-> row.name, service_name |-> row.scope_name,
     start_time_unix_nano |-> row.start_time_unix_nano,
     end_time_unix_nano |-> row.end_time_unix_nano,
     duration_ms |-> DurationMs(row)]

\* a variant of the query of GetTraceDetails that orders by the end time
TraceDetails_ByEnd(table, traceID) ==
    { [i \in 1..Len(q) |-> TraceSpanOf(q[i])] :
        q \in OrderBy(SelectSeq(table, LAMBDA r : r.trace_id = traceID),
                      "end_time_unix_nano", FALSE) }

\* the results GetTraceDetails may return: WHERE trace_id = traceID
\* ORDER BY start_time_unix_nano ASC
TraceDetails(table, traceID) ==
    { [i \in 1..Len(q) |-> TraceSpanOf(q[i])] :
        q \in OrderBy(SelectSeq(table, LAMBDA r : r.trace_id = traceID),
                      "start_time_unix_nano", FALSE) }

\* a SpanDetail as Scan and the two loops over the attribute arrays fill it
SpanDetailOf(row) ==
    [span_id |-> row.span_id, trace_id |-> row.trace_id,
     parent_span_id |-> row.parent_span_id, name |-> row.name,
     service_name |-> row.scope_name,
     start_time_unix_nano |-> row.start_time_unix_nano,
     end_time_unix_nano |-> row.end_time_unix_nano,
     duration_ms |-> DurationMs(row),
     resourceAttributes |-> row.resource_attributes,
     spanAttributes |-> row.span_attributes]

\* GetSpanDetails and its handler: the first row the store returns for the
\* span id; when there is none the service returns the error "span not
\* found", which the handler, like every error, answers with 500
SpanDetailsReply(table, spanID) ==
    LET found == SelectSeq(table, LAMBDA r : r.span_id = spanID)
    IN  IF Len(found) = 0 THEN {Failed(500)}
        ELSE { Ok(SpanDetailOf(found[i])) : i \in 1..Len(found) }

\* the path parameters the model asks with: the names of scopes and services,
\* and the base64 of the identifiers in the documents and of one in none
ServiceParams == {SvcName, LibName, <<>>}
TraceParams == {encodeBytes(<<84>>), encodeBytes(<<85>>)}
SpanParams == {encodeBytes(<<1>>), encodeBytes(<<3>>), encodeBytes(<<9>>)}

\* GET /v1/traces/service/{service}
GetServiceTraces ==
    /\ call = NoCall
    /\ \E service \in ServiceParams, queryOk \in BOOLEAN :
          /\ call' = [endpoint |-> "getServiceTraces", param |-> service, storeOk |-> queryOk]
          /\ IF queryOk
             THEN \E res \in ServiceTraces(rows, service) : reply' = Ok(JsonList(res))
             ELSE reply' = Failed(500)
    /\ op' = "getServiceTraces"
    /\ UNCHANGED <<rows, doc>>
    /\ UNCHANGED parserVars
    /\ UNCHANGED seriesVars
    /\ UNCHANGED ingestVars
    /\ UNCHANGED attrVars

\* GET /v1/traces/{trace_id}
GetTraceDetails ==
    /\ call = NoCall
    /\ \E traceID \in TraceParams, queryOk \in BOOLEAN :
          /\ call' = [endpoint |-> "getTraceDetails", param |-> traceID, storeOk |-> queryOk]
          /\ IF queryOk
             THEN \E res \in TraceDetails(rows, traceID) : reply' = Ok(JsonList(res))
             ELSE reply' = Failed(500)
    /\ op' = "getTraceDetails"
    /\ UNCHANGED <<rows, doc>>
    /\ UNCHANGED parserVars
    /\ UNCHANGED seriesVars
    /\ UNCHANGED ingestVars
    /\ UNCHANGED attrVars

\* GET /v1/spans/{span_id}
GetSpanDetails ==
    /\ call = NoCall
    /\ \E spanID \in SpanParams, queryOk \in BOOLEAN :
          /\ call' = [endpoint |-> "getSpanDetails", param |-> spanID, storeOk |-> queryOk]
          /\ IF queryOk
             THEN reply' \in SpanDetailsReply(rows, spanID)
             ELSE reply' = Failed(500)
    /\ op' = "getSpanDetails"
    /\ UNCHANGED <<rows, doc>>
    /\ UNCHANGED parserVars
    /\ UNCHANGED seriesVars
    /\ UNCHANGED ingestVars
    /\ UNCHANGED attrVars

NextDocs == PostDocument \/ GetServiceTraces \/ GetTraceDetails \/ GetSpanDetails

SpecDocs == InitDocs /\ [][NextDocs]_vars

(***************************************************************************)
(* Properties of the JSON path and of the reads that follow it.            *)
(***************************************************************************)
\* the document was posted and the store took every batch
Posted == served = 1 /\ ~StoreFailed

\* the document is of the old format
UsesOldFormat(d) == \E i \in 1..Len(d) : d[i].groupsKey = "instrumentationLibrarySpans"

\* the same payload written in OTLP JSON: the groups under "scopeSpans", the
\* instrumentation library as the scope, every attribute value as the object
\* OTLP defines
ModernAttrs(as) == [i \in 1..Len(as) |-> [as[i] EXCEPT !.shape = "otlp"]]

ModernSpan(sp) ==
    [sp EXCEPT !.serviceName = <<>>,
               !.attributes.attributes = ModernAttrs(sp.attributes.attributes)]

ModernGroup(ss) ==
    [ss EXCEPT !.scope = IF ss.scope.present THEN ss.scope ELSE ss.library,
               !.library = Absent,
               !.spans = [i \in 1..Len(ss.spans) |-> ModernSpan(ss.spans[i])]]

ModernEntry(rs) ==
    [rs EXCEPT !.groupsKey = "scopeSpans",
               !.resource.attributes = ModernAttrs(rs.resource.attributes),
               !.groups = [i \in 1..Len(rs.groups) |-> ModernGroup(rs.groups[i])]]

ModernOf(d) == [i \in 1..Len(d) |-> ModernEntry(d[i])]

\* C11: a payload of the old format (instrumentationLibrarySpans, wrapped
\* attribute values) is accepted and gives exactly the rows that the same
\* payload written in OTLP JSON gives.
C11_LegacyUpgradeEquivalence ==
    (Posted /\ UsesOldFormat(doc) /\ PostOutcome(ModernOf(doc), TRUE).status = 200) =>
        /\ status = 200
        /\ rows = PostOutcome(ModernOf(doc), TRUE).rows

\* the service.name a resource carries, in either shape
CarriesServiceName(rs, s) ==
    \E n \in 1..Len(rs.resource.attributes) :
       LET a == rs.resource.attributes[n]
       IN  a.key = "service.name" /\ a.any.kind = "string" /\ a.any.str = s

\* C12: after a payload of the old format whose resource carries
\* service.name = s is ingested, getServiceTraces(s) returns its spans.
C12_LegacyServiceLookup ==
    (/\ Posted
     /\ status = 200
     /\ UsesOldFormat(doc)
     /\ op = "getServiceTraces"
     /\ reply.status = 200) =>
        \A i \in 1..Len(doc) :
           CarriesServiceName(doc[i], call.param) =>
              \A k \in 1..Len(SpansOfEntry(doc[i])) :
                 \E n \in 1..Len(reply.body.items) :
                    /\ reply.body.items[n].trace_id = encodeBytes(SpansOfEntry(doc[i])[k].trace_id)
                    /\ reply.body.items[n].name = SpansOfEntry(doc[i])[k].name

\* the read was made after the document was ingested, and the store answered
ReadAfterIngest(endpoint) ==
    /\ Posted
    /\ status = 200
    /\ op = endpoint
    /\ call.storeOk

\* the spans of the decoded request, each with the scope name of its group
IngestedSpans ==
    Flatten([i \in 1..Len(req) |->
       Flatten([j \in 1..Len(req[i].scopeSpans) |->
          [k \in 1..Len(req[i].scopeSpans[j].spans) |->
              [span |-> req[i].scopeSpans[j].spans[k],
               scope_name |-> req[i].scopeSpans[j].scope.name]]])])

ReportsError(rec) == "hasError" \in DOMAIN rec /\ rec.hasError

\* whether the span of a record was ingested with an event named "exception"
HasExceptionEvent(rec) ==
    \E s \in 1..Len(IngestedSpans) :
       /\ encodeBytes(IngestedSpans[s].span.span_id) = rec.span_id
       /\ \E e \in 1..Len(IngestedSpans[s].span.events) :
             IngestedSpans[s].span.events[e] = "exception"

\* C17: every span record of the reader reports hasError = true iff the
\* ingested span has an event named "exception".
C17_ErrorDetection ==
    (ReadAfterIngest("getTraceDetails") /\ reply.status = 200) =>
        \A n \in 1..Len(reply.body.items) :
           ReportsError(reply.body.items[n]) <=> HasExceptionEvent(reply.body.items[n])

\* no row of the table has the identifier asked for
NoRowWith(column) == \A n \in 1..Len(rows) : rows[n][column] # call.param

\* C18: a span id without row is answered 404 by GET /v1/spans/{span_id}, a
\* trace id without rows is answered 200 with an empty list by
\* GET /v1/traces/{trace_id}; neither is answered 500.
C18_NotFoundHandling ==
    /\ (op = "getSpanDetails" /\ call.storeOk /\ NoRowWith("span_id")) =>
          reply.status = 404
    /\ (op = "getTraceDetails" /\ call.storeOk /\ NoRowWith("trace_id")) =>
          (reply.status = 200 /\ Len(reply.body.items) = 0)

(***************************************************************************)
(* The search: GET /api/search, searchTraces of api/controller.go with     *)
(* SearchTraces of api/service.go, over the rows of the table.  The times  *)
(* of the rows and of the date range are in ticks, like those of the       *)
(* series.                                                                 *)
(***************************************************************************)
HttpMethod == <<"h", "t", "t", "p", ".", "m", "e", "t", "h", "o", "d">>
GET == <<"G", "E", "T">>
POST == <<"P", "O", "S", "T">>
OpName == <<"o", "p">>

\* a row of denormalized_span, its times given in seconds
SearchRow(tid, sid, st, en, res, spn) ==
    [trace_id |-> encodeBytes(<<tid>>),
     span_id |-> encodeBytes(<<sid>>),
     parent_span_id |-> <<>>,
     name |-> OpName,
     start_time_unix_nano |-> st * TicksPerSecond,
     end_time_unix_nano |-> en * TicksPerSecond,
     scope_name |-> SvcName,
     resource_attributes |-> res,
     span_attributes |-> spn,
     events |-> <<>>]

\* the rows the tables of the search are made of: spans that carry
\* http.method as a span attribute, as both a resource and a span attribute,
\* one with the span attributes {a: x, b: y}, and one with the resource
\* attribute {a: x}; some of them have the same start, end or duration, and
\* the first starts before the later of the date ranges
SearchCatalog ==
    << SearchRow(84, 1, 0, 1, <<>>, Put(<<>>, HttpMethod, GET)),
       SearchRow(84, 2, 1, 2, <<>>, Put(<<>>, HttpMethod, POST)),
       SearchRow(85, 3, 1, 3, <<>>, Put(Put(<<>>, <<"a">>, <<"x">>), <<"b">>, <<"y">>)),
       SearchRow(85, 4, 2, 3, Put(<<>>, HttpMethod, GET), Put(<<>>, HttpMethod, GET)),
       SearchRow(86, 5, 3, 4, Put(<<>>, <<"a">>, <<"x">>), <<>>) >>

MaxTableRows == 2
MaxPage == 2

\* up to MaxTableRows rows of the catalog that follow each other
CatalogRuns ==
    { SubSeq(SearchCatalog, w[1], w[2]) :
        w \in { v \in (1..Len(SearchCatalog)) \X (0..Len(SearchCatalog)) :
                  v[2] - v[1] + 1 \in 0..MaxTableRows } }

\* the tables searched: runs of the catalog, and runs that were ingested
\* twice, whose rows the table holds twice
SearchTables ==
    CatalogRuns \cup { t \o t : t \in { u \in CatalogRuns : 2 * Len(u) <= MaxTableRows } }

\* the date ranges of the search: the first four seconds, and the seconds 1 to 4
SearchRanges ==
    { [Start |-> 0, End |-> 4 * TicksPerSecond],
      [Start |-> TicksPerSecond, End |-> 4 * TicksPerSecond] }

\* the text of the query k=v and of the query k!=v
EqQuery(k, v) == k \o <<"=">> \o v
NeqQuery(k, v) == k \o <<"!", "=">> \o v

\* the query parameter of the requests
SearchQueries ==
    { <<>>, GET,
      EqQuery(<<"a">>, <<"y">>), EqQuery(<<"a">>, <<"x">>),
      NeqQuery(HttpMethod, GET) }

\* the page and pageSize parameters: absent, zero, and small numbers
PageParams == { <<>>, Itoa(0) } \cup { Itoa(n) : n \in 2..MaxPage }
PageSizeParams == { <<>>, Itoa(0), Itoa(1), Itoa(2) }

\* the percentile parameter: absent, no number, and a number above 100
PercentileParams == { <<>>, <<"x">>, Itoa(150) }

\* where the store may fail a search: at one of the five queries, when the
\* query is run or when its rows are read
SearchQueryNames == { "count", "percentile", "traceCount", "avgDuration", "page" }
FailurePoints == [query : SearchQueryNames, at : {"query", "rows"}]

\* the sortField and sortOrder parameters
SortFields == { "start_time", "end_time", "duration", "" }
SortOrders == { "asc", "desc", "" }

\* the Nested columns resource_attributes and span_attributes hold the keys
\* and the values of the map in two arrays; has(array, x)
KeyArray(mm) == DOMAIN mm
ValueArray(mm) == { mm[k] : k \in DOMAIN mm }
has(array, x) == x \in array

\* a variant of the condition of k=v that wants v to be the value of k
EqCondition_SameEntry(row, k, v) ==
    \/ /\ has(KeyArray(row.resource_attributes), k)
       /\ row.resource_attributes[k] = v
    \/ /\ has(KeyArray(row.span_attributes), k)
       /\ row.span_attributes[k] = v

\* the condition of an attribute with operator "="
EqCondition(row, k, v) ==
    \/ /\ has(KeyArray(row.resource_attributes), k)
       /\ has(ValueArray(row.resource_attributes), v)
    \/ /\ has(KeyArray(row.span_attributes), k)
       /\ has(ValueArray(row.span_attributes), v)

\* the condition of an attribute with operator "!="
NeqCondition(row, k, v) ==
    \/ \/ ~has(KeyArray(row.resource_attributes), k)
       \/ /\ has(KeyArray(row.resource_attributes), k)
          /\ ~has(ValueArray(row.resource_attributes), v)
    \/ \/ ~has(KeyArray(row.span_attributes), k)
       \/ /\ has(KeyArray(row.span_attributes), k)
          /\ ~has(ValueArray(row.span_attributes), v)

\* the broad condition of a query that is no attribute query
BroadCondition(row, q) ==
    \/ row.name = q
    \/ row.scope_name = q
    \/ row.trace_id = q
    \/ row.span_id = q
    \/ has(KeyArray(row.resource_attributes), q)
    \/ has(ValueArray(row.resource_attributes), q)
    \/ has(KeyArray(row.span_attributes), q)
    \/ has(ValueArray(row.span_attributes), q)

\* conds: the WHERE clause of the search for a row
SearchConds(row, dr, q) ==
    /\ row.start_time_unix_nano >= dr.Start
    /\ row.end_time_unix_nano <= dr.End
    /\ IF q = <<>> THEN TRUE
       ELSE LET parsed == parseAttributeQuery(q)
            IN  IF ~parsed.isNil
                THEN \A i \in 1..Len(parsed.list) :
                        IF parsed.list[i].Operator = "="
                        THEN EqCondition(row, parsed.list[i].Key, parsed.list[i].Value)
                        ELSE IF parsed.list[i].Operator = "!="
                        THEN NeqCondition(row, parsed.list[i].Key, parsed.list[i].Value)
                        ELSE TRUE
                ELSE BroadCondition(row, q)

\* the column duration_ns of a row: the time from its start to its end
WithDuration(row) ==
    [trace_id |-> row.trace_id,
     span_id |-> row.span_id,
     name |-> row.name,
     scope_name |-> row.scope_name,
     start_time_unix_nano |-> row.start_time_unix_nano,
     end_time_unix_nano |-> row.end_time_unix_nano,
     duration_ns |-> row.end_time_unix_nano - row.start_time_unix_nano,
     resource_attributes |-> row.resource_attributes]

\* the rows of the table that satisfy conds
Filtered(table, dr, q) ==
    LET sel == SelectSeq(table, LAMBDA r : SearchConds(r, dr, q))
    IN  [i \in 1..Len(sel) |-> WithDuration(sel[i])]

\* count(DISTINCT trace_id, span_id)
TotalCount(found) ==
    Cardinality({ <<found[i].trace_id, found[i].span_id>> : i \in 1..Len(found) })

\* the switch on sort.Field: the orders in which the store may return the
\* filtered rows
SortedRows(found, sort) ==
    IF sort.Field = "start_time"
    THEN OrderBy(found, "start_time_unix_nano", sort.Order # "asc")
    ELSE IF sort.Field = "end_time"
    THEN OrderBy(found, "end_time_unix_nano", sort.Order # "asc")
    ELSE IF sort.Field = "duration"
    THEN OrderBy(found, "duration_ns", sort.Order # "asc")
    ELSE OrderBy(found, "start_time_unix_nano", TRUE)

\* offset := (page - 1) * pageSize
OffsetOf(page, pageSize) == (page - 1) * pageSize

\* LIMIT limit OFFSET offset of the rows in the order the store returns them
LimitOffset(sorted, limit, offset) ==
    SubSeq(sorted, offset + 1, IF Len(sorted) < offset + limit THEN Len(sorted) ELSE offset + limit)

\* a SearchResult as Scan and the loop over the resource keys fill it
SearchResultOf(row) ==
    [trace_id |-> row.trace_id, span_id |-> row.span_id, name |-> row.name,
     service_name |-> row.scope_name,
     duration_ms |-> <<row.duration_ns, 1000000>>,
     start_time_unix_nano |-> row.start_time_unix_nano,
     end_time_unix_nano |-> row.end_time_unix_nano,
     resourceAttributes |-> row.resource_attributes]

\* the result pages the search may return
ResultPages(found, page, pageSize, sort) ==
    { [i \in 1..Len(w) |-> SearchResultOf(w[i])] :
        w \in { LimitOffset(o, pageSize, OffsetOf(page, pageSize)) : o \in SortedRows(found, sort) } }

\* the three series of the response, over the filtered rows: the percentile
\* series may be any of a set, the other two are determined.  A DateTime has
\* no value before the epoch: the ranges of the search start from it on
SearchSeries(found, dr) ==
    LET intervalSQL == GetIntervalFromDateRange(dr)
        step == ParseInterval(intervalSQL).step
        sel == 1..Len(found)
        bucketOf == [i \in sel |->
                        toStartOfInterval(toDateTime(found[i].start_time_unix_nano), step)]
        duration == [i \in sel |-> found[i].duration_ns]
    IN  [pResults |-> { PadQueryResult(f, intervalSQL, dr) :
                           f \in QuantileByBucket(sel, bucketOf, duration) },
         tcResult |-> PadQueryResult(CountByBucket(sel, bucketOf), intervalSQL, dr),
         avgResult |-> PadQueryResult(AvgByBucket(sel, bucketOf, duration), intervalSQL, dr)]

\* the SearchResponse, encoded
SearchResponse(results, totalCount, page, pageSize, pResult, tcResult, avgResult) ==
    [results |-> JsonList(results),
     totalCount |-> totalCount,
     page |-> page,
     pageSize |-> pageSize,
     percentileResults |-> pResult,
     traceCountResults |-> tcResult,
     avgDurationResults |-> avgResult]

\* a variant that computes the series over the rows of the page
SearchReplies_SeriesOfPage(table, dr, q, page, pageSize, sort) ==
    LET found == Filtered(table, dr, q)
        ss == SearchSeries(LimitOffset(found, pageSize, OffsetOf(page, pageSize)), dr)
    IN  IF \E p \in ss.pResults : p.err THEN {[status |-> 0, body |-> <<>>]}
        ELSE IF ss.tcResult.err \/ ss.avgResult.err THEN {Failed(500)}
        ELSE { Ok(SearchResponse(res, TotalCount(found), page, pageSize,
                                 p.series, ss.tcResult.series, ss.avgResult.series)) :
                 res \in ResultPages(found, page, pageSize, sort),
                 p \in ss.pResults }

\* the answers SearchTraces and its handler may give when the store answers
\* every query: a pad error of the percentile series panics, which leaves
\* the request without response; one of the other two series is an error
SearchReplies(table, dr, q, page, pageSize, sort) ==
    LET found == Filtered(table, dr, q)
        ss == SearchSeries(found, dr)
    IN  IF \E p \in ss.pResults : p.err THEN {[status |-> 0, body |-> <<>>]}
        ELSE IF ss.tcResult.err \/ ss.avgResult.err THEN {Failed(500)}
        ELSE { Ok(SearchResponse(res, TotalCount(found), page, pageSize,
                                 p.series, ss.tcResult.series, ss.avgResult.series)) :
                 res \in ResultPages(found, page, pageSize, sort),
                 p \in ss.pResults }

\* the answers when the store fails at point: the error of a query, of the
\* scan of the count and of the rows of the page is returned and answered 500;
\* so is the error PadQueryResult returns for the rows of the count and the
\* average series, while getPercentileForQuery panics on it
SearchFailure(point) ==
    IF point.query = "percentile" /\ point.at = "rows"
    THEN [status |-> 0, body |-> <<>>]
    ELSE Failed(500)

\* pFloat := float64(percentile) / 100.0, as hundredths
QuantileLevel(percentile) == [num |-> percentile, den |-> 100]

\* quantile(level) of the store takes a level from 0 to 1 and throws for any
\* other when the query is run
LevelAccepted(level) == level.num >= 0 /\ level.num <= level.den

\* percentile, page and pageSize as the handler reads them
PercentileOf(param) ==
    IF param = <<>> THEN 95
    ELSE LET p == Atoi(param) IN IF p.err THEN 95 ELSE p.val
PageOf(param) ==
    LET n == Atoi(param) IN IF n.err \/ n.val < 1 THEN 1 ELSE n.val
PageSizeOf(param) ==
    LET n == Atoi(param) IN IF n.err \/ n.val < 1 THEN 10 ELSE n.val

\* the SortOption the handler builds
SortOption(field, order) ==
    [Field |-> field, Order |-> IF order # "asc" /\ order # "desc" THEN "desc" ELSE order]

InitSearch ==
    /\ op = "none"
    /\ ParserIdle
    /\ rows \in SearchTables
    /\ dateRange \in SearchRanges
    /\ interval = <<>>
    /\ series = <<>>
    /\ err = FALSE
    /\ IngestIdle
    /\ AttrsIdle
    /\ ApiIdle

\* GET /api/search.  The client starts a search, then asks for pages of it:
\* the requests after the first have its query, page size, sort and
\* percentile.  A level the store does not accept fails the percentile query,
\* the second of the five, if the count query has not failed before it
SearchTraces ==
    /\ \E q \in SearchQueries,
          pageSize \in { PageSizeOf(param) : param \in PageSizeParams },
          sort \in { SortOption(field, order) : field \in SortFields, order \in SortOrders },
          percentile \in { PercentileOf(param) : param \in PercentileParams } :
          /\ \/ call = NoCall
             \/ /\ call.endpoint = "searchTraces"
                /\ call.param = q
                /\ call.pageSize = pageSize
                /\ call.sort = sort
                /\ call.percentile = percentile
          /\ \E page \in { PageOf(param) : param \in PageParams }, queryOk \in BOOLEAN :
                /\ call' = [endpoint |-> "searchTraces", param |-> q,
                            storeOk |-> queryOk, page |-> page,
                            pageSize |-> pageSize, sort |-> sort,
                            percentile |-> percentile]
                /\ IF ~LevelAccepted(QuantileLevel(percentile))
                   THEN reply' = Failed(500)
                   ELSE IF ~queryOk
                   THEN reply' \in { SearchFailure(point) : point \in FailurePoints }
                   ELSE reply' \in SearchReplies(rows, dateRange, q,
                                                 page, pageSize, sort)
    /\ op' = "searchTraces"
    /\ UNCHANGED <<rows, dateRange, interval, series, err, doc>>
    /\ UNCHANGED parserVars
    /\ UNCHANGED ingestVars
    /\ UNCHANGED attrVars

NextSearch == SearchTraces

SpecSearch == InitSearch /\ [][NextSearch]_vars

(***************************************************************************)
(* Properties of the search.                                               *)
(***************************************************************************)
\* the search with query q was answered with a result
SearchedFor(q) ==
    /\ call.endpoint = "searchTraces"
    /\ call.param = q
    /\ reply.status = 200

\* the span ids of the results of the response
Returned == { reply.body.results.items[i].span_id :
                i \in 1..Len(reply.body.results.items) }

\* the response holds the whole result list: the first page, with room for
\* every row of the table
WholeList == call.page = 1 /\ call.pageSize >= Len(rows)

\* the rows of the table within the date range
InRange == { i \in DOMAIN rows :
               /\ rows[i].start_time_unix_nano >= dateRange.Start
               /\ rows[i].end_time_unix_nano <= dateRange.End }

\* the pairs of key and value the properties ask about
EqProbes == { <<(<<"a">>), (<<"y">>)>>, <<(<<"a">>), (<<"x">>)>> }
NeqProbes == { <<HttpMethod, GET>> }

\* k is among the keys and v among the values of the attributes
KeyAndValueAmong(mm, k, v) ==
    /\ \E j \in DOMAIN mm : j = k
    /\ \E j \in DOMAIN mm : mm[j] = v

\* the attributes give the key k the value v
Carries(mm, k, v) == \E j \in DOMAIN mm : j = k /\ mm[j] = v

C14_NeqExcludesCarriers ==
    \A p \in NeqProbes :
       SearchedFor(NeqQuery(p[1], p[2])) =>
          /\ \A i \in DOMAIN rows :
                rows[i].span_id \in Returned =>
                   /\ ~Carries(rows[i].resource_attributes, p[1], p[2])
                   /\ ~Carries(rows[i].span_attributes, p[1], p[2])
          /\ WholeList =>
                \A i \in InRange :
                   (\E v \in {GET, POST} \ {p[2]} : Carries(rows[i].span_attributes, p[1], v))
                      => rows[i].span_id \in Returned

\* the part of C14 that holds: the span carrying the key with another value
\* is returned, and a span that carries the key with the value both as a
\* resource and as a span attribute is not
NeqReturnsTheOthers ==
    \A p \in NeqProbes :
       SearchedFor(NeqQuery(p[1], p[2])) =>
          /\ \A i \in DOMAIN rows :
                rows[i].span_id \in Returned =>
                   ~(/\ Carries(rows[i].resource_attributes, p[1], p[2])
                     /\ Carries(rows[i].span_attributes, p[1], p[2]))
          /\ WholeList =>
                \A i \in InRange :
                   (\E v \in {GET, POST} \ {p[2]} : Carries(rows[i].span_attributes, p[1], v))
                      => rows[i].span_id \in Returned

\* C15: two pages of one search over the same table have no row in common
C15_PagesDisjoint ==
    [][ (/\ call.endpoint = "searchTraces"
         /\ call'.endpoint = "searchTraces"
         /\ call'.param = call.param
         /\ call'.pageSize = call.pageSize
         /\ call'.sort = call.sort
         /\ call'.page # call.page
         /\ reply.status = 200
         /\ reply'.status = 200
         /\ rows' = rows)
        => { reply.body.results.items[i].span_id :
               i \in 1..Len(reply.body.results.items) }
           \cap { reply'.body.results.items[i].span_id :
                    i \in 1..Len(reply'.body.results.items) } = {} ]_vars

\* the sort of the request is descending
Descending(sort) == sort.Order = "desc" \/ sort.Field \notin {"start_time", "end_time", "duration"}

\* the part of C15 that holds: when no two filtered rows have the same sort
\* key, a page holds the rows ranked (page-1)*pageSize+1 to page*pageSize in
\* the sort order
PageIsRankWindow ==
    (call.endpoint = "searchTraces" /\ reply.status = 200) =>
       LET found == Filtered(rows, dateRange, call.param)
           key == [i \in 1..Len(found) |->
                      IF call.sort.Field = "end_time" THEN found[i].end_time_unix_nano
                      ELSE IF call.sort.Field = "duration" THEN found[i].duration_ns
                      ELSE found[i].start_time_unix_nano]
           before(i) == { j \in 1..Len(found) :
                            IF Descending(call.sort) THEN key[j] > key[i] ELSE key[j] < key[i] }
           offset == (call.page - 1) * call.pageSize
           items == reply.body.results.items
       IN  (\A i, j \in 1..Len(found) : i # j => key[i] # key[j]) =>
              /\ Len(items) = Max(0, IF Len(found) - offset < call.pageSize
                                     THEN Len(found) - offset ELSE call.pageSize)
              /\ \A n \in 1..Len(items) :
                    \E i \in 1..Len(found) :
                       /\ found[i].span_id = items[n].span_id
                       /\ Cardinality(before(i)) = offset + n - 1

(***************************************************************************)
(* The date range of a request: ParseDateRange and GetDateRangeFromQuery,  *)
(* utils/utils.go, with time.Parse(time.RFC3339, s) and the arithmetic of  *)
(* time.Duration as far as they use them.                                  *)
(***************************************************************************)
\* the value of the two digits of s from position i on, -1 if they are none
TwoDigits(s, i) ==
    IF i + 1 <= Len(s) /\ IsDigit(s[i]) /\ IsDigit(s[i + 1])
    THEN DigitsValue(SubSeq(s, i, i + 1)) ELSE -1

FourDigits(s, i) ==
    IF i + 3 <= Len(s) /\ \A j \in i..(i + 3) : IsDigit(s[j])
    THEN DigitsValue(SubSeq(s, i, i + 3)) ELSE -1

IsLeap(year) == year % 4 = 0 /\ (year % 100 # 0 \/ year % 400 = 0)

DaysIn(month, year) ==
    IF month = 2 THEN (IF IsLeap(year) THEN 29 ELSE 28)
    ELSE IF month \in {4, 6, 9, 11} THEN 30 ELSE 31

\* the leap years before a year
LeapsBefore(year) == ((year - 1) \div 4) - ((year - 1) \div 100) + ((year - 1) \div 400)

RECURSIVE DaysBeforeMonth(_, _)
DaysBeforeMonth(month, year) ==
    IF month = 1 THEN 0 ELSE DaysBeforeMonth(month - 1, year) + DaysIn(month - 1, year)

\* the days from 1970-01-01 to a date
DaysFromEpoch(year, month, day) ==
    365 * (year - 1970) + LeapsBefore(year) - LeapsBefore(1970)
      + DaysBeforeMonth(month, year) + (day - 1)

\* the zone of an RFC3339 time: "Z" or a numeric offset +hh:mm / -hh:mm,
\* as seconds east of UTC
ParseZone(z) ==
    IF z = <<"Z">> THEN [err |-> FALSE, offset |-> 0]
    ELSE IF /\ Len(z) = 6
            /\ z[1] \in {"+", "-"}
            /\ z[4] = ":"
            /\ TwoDigits(z, 2) \in 0..23
            /\ TwoDigits(z, 5) \in 0..59
    THEN [err |-> FALSE,
          offset |-> (IF z[1] = "-" THEN -1 ELSE 1)
                        * (TwoDigits(z, 2) * 3600 + TwoDigits(z, 5) * 60)]
    ELSE [err |-> TRUE, offset |-> 0]

\* time.Parse(time.RFC3339, s) for strings without fractional seconds:
\* yyyy-mm-ddThh:mm:ss and the zone, every field within its range
ParseRFC3339(s) ==
    IF /\ Len(s) >= 20
       /\ s[5] = "-" /\ s[8] = "-" /\ s[11] = "T" /\ s[14] = ":" /\ s[17] = ":"
       /\ FourDigits(s, 1) >= 0
       /\ TwoDigits(s, 6) \in 1..12
       /\ TwoDigits(s, 9) \in 1..DaysIn(TwoDigits(s, 6), FourDigits(s, 1))
       /\ TwoDigits(s, 12) \in 0..23
       /\ TwoDigits(s, 15) \in 0..59
       /\ TwoDigits(s, 18) \in 0..59
       /\ ~ParseZone(SubSeq(s, 20, Len(s))).err
    THEN [err |-> FALSE,
          t |-> TimeUnix(DaysFromEpoch(FourDigits(s, 1), TwoDigits(s, 6), TwoDigits(s, 9)) * 86400
                           + TwoDigits(s, 12) * 3600 + TwoDigits(s, 15) * 60 + TwoDigits(s, 18)
                           - ParseZone(SubSeq(s, 20, Len(s))).offset)]
    ELSE [err |-> TRUE, t |-> 0]

\* a time.Duration is a signed integer of 64 bits, of which the model keeps
\* DurationBits, counting ticks; a product that does not fit wraps around
DurationBits == 28

WrapDuration(x) ==
    ((x + 2^(DurationBits - 1)) % 2^DurationBits) - 2^(DurationBits - 1)

\* time.Duration(a) * b for b >= 0, every intermediate value wrapped
RECURSIVE MulDuration(_, _)
MulDuration(a, b) ==
    IF b = 0 THEN 0
    ELSE WrapDuration(WrapDuration(2 * MulDuration(a, b \div 2))
                        + (IF b % 2 = 1 THEN WrapDuration(a) ELSE 0))

\* the zero DateRange{}: time.Time{} is the first instant of the year 1
ZeroTime == "0001-01-01T00:00:00Z"

\* the switch on unit: time.Second, time.Minute, time.Hour, 24 * time.Hour
UnitDuration(unit) ==
    IF unit = "s" THEN [known |-> TRUE, ticks |-> TicksPerSecond]
    ELSE IF unit = "m" THEN [known |-> TRUE, ticks |-> 60 * TicksPerSecond]
    ELSE IF unit = "h" THEN [known |-> TRUE, ticks |-> 3600 * TicksPerSecond]
    ELSE IF unit = "d" THEN [known |-> TRUE, ticks |-> 24 * 3600 * TicksPerSecond]
    ELSE [known |-> FALSE, ticks |-> 0]

\* GetDateRangeFromQuery, now being time.Now()
GetDateRangeFromQuery(timeRange, now) ==
    IF Len(timeRange) < 2 THEN [Start |-> now, End |-> now]
    ELSE LET unit == timeRange[Len(timeRange)]
             value == Atoi(SubSeq(timeRange, 1, Len(timeRange) - 1))
         IN  IF value.err THEN [Start |-> now, End |-> now]
             ELSE IF ~UnitDuration(unit).known THEN [Start |-> now, End |-> now]
             ELSE [Start |-> now - MulDuration(value.val, UnitDuration(unit).ticks),
                   End |-> now]

\* ParseDateRange over the values of the three parameters, "" when absent
ParseDateRange(startStr, endStr, timeRange, now) ==
    IF startStr # <<>> /\ endStr # <<>>
    THEN LET startTime == ParseRFC3339(startStr)
             endTime == ParseRFC3339(endStr)
         IN  IF ~startTime.err /\ ~endTime.err
             THEN [err |-> FALSE, dateRange |-> [Start |-> startTime.t, End |-> endTime.t]]
             ELSE [err |-> TRUE, dateRange |-> [Start |-> ZeroTime, End |-> ZeroTime]]
    ELSE [err |-> FALSE, dateRange |-> GetDateRangeFromQuery(timeRange, now)]

\* the values of the start and end parameters: times in RFC3339, strings
\* that are none, and "" for an absent parameter
At5s == <<"1", "9", "7", "0", "-", "0", "1", "-", "0", "1", "T", "0", "0", ":", "0", "0", ":", "0", "5", "Z">>
At60s == <<"1", "9", "7", "0", "-", "0", "1", "-", "0", "1", "T", "0", "0", ":", "0", "1", ":", "0", "0", "Z">>
AtEpochPlusOne == <<"1", "9", "7", "0", "-", "0", "1", "-", "0", "1", "T", "0", "1", ":", "0", "0", ":", "0", "0", "+", "0", "1", ":", "0", "0">>
AtMarch == <<"1", "9", "7", "0", "-", "0", "3", "-", "0", "1", "T", "0", "0", ":", "0", "0", ":", "0", "0", "Z">>
DateOnly == <<"1", "9", "7", "0", "-", "0", "1", "-", "0", "1">>
WithSpace == <<"1", "9", "7", "0", "-", "0", "1", "-", "0", "1", " ", "0", "0", ":", "0", "0", ":", "0", "5", "Z">>
Feb30 == <<"1", "9", "7", "0", "-", "0", "2", "-", "3", "0", "T", "0", "0", ":", "0", "0", ":", "0", "0", "Z">>
NoZone == <<"1", "9", "7", "0", "-", "0", "1", "-", "0", "1", "T", "0", "0", ":", "0", "0", ":", "0", "5">>

StartParams == { <<>>, At5s, AtEpochPlusOne, DateOnly, WithSpace, Feb30 }
EndParams == { <<>>, At60s, AtMarch, NoZone, At5s }

\* the values of the timeRange parameter: relative ranges, one of them longer
\* than a time.Duration holds, and strings that are none
RelativeRanges ==
    { <<"1", "5", "m">>,
      <<"1", "h">>,
      <<"7", "d">>,
      <<"3", "0", "s">>,
      <<"-", "5", "m">>,
      <<"+", "5", "m">>,
      <<"2", "0", "0", "0", "0", "0", "d">> }
MalformedRanges ==
    { <<>>,
      <<"m">>,
      <<"5">>,
      <<"5", "x">>,
      <<"a", "b", "m">>,
      <<"1", ".", "5", "h">>,
      <<"5", " ", "m">>,
      <<"5", "M">> }
TimeRangeParams == RelativeRanges \cup MalformedRanges

\* the instants time.Now() returns, in seconds
Nows == { TimeUnix(100), TimeUnix(10 * 86400) }

InitDates ==
    /\ op = "none"
    /\ ParserIdle
    /\ SeriesIdle
    /\ rows = <<>>
    /\ IngestIdle
    /\ AttrsIdle
    /\ ApiIdle

\* ParseDateRange(query, "start", "end", "timeRange"), as the handlers of the
\* series call it
ParseDateRangeOfQuery ==
    /\ call = NoCall
    /\ \E startStr \in StartParams, endStr \in EndParams,
          timeRange \in TimeRangeParams, now \in Nows :
          LET dr == ParseDateRange(startStr, endStr, timeRange, now)
          IN  /\ call' = [endpoint |-> "ParseDateRange",
                          param |-> [start |-> startStr, end |-> endStr,
                                     timeRange |-> timeRange, now |-> now],
                          storeOk |-> TRUE]
              /\ dateRange' = dr.dateRange
              /\ err' = dr.err
    /\ op' = "ParseDateRange"
    /\ UNCHANGED <<rows, interval, series, doc, reply>>
    /\ UNCHANGED parserVars
    /\ UNCHANGED ingestVars
    /\ UNCHANGED attrVars

NextDates == ParseDateRangeOfQuery

SpecDates == InitDates /\ [][NextDates]_vars

(***************************************************************************)
(* Properties of the date range.                                           *)
(***************************************************************************)
\* the instants of the RFC3339 strings among the parameters, in seconds
\* from the epoch; the other strings are no RFC3339
InstantOf ==
    [s \in {At5s, At60s, AtEpochPlusOne, AtMarch} |->
        IF s = At5s THEN 5
        ELSE IF s = At60s THEN 60
        ELSE IF s = AtEpochPlusOne THEN 0
        ELSE 59 * 86400]

\* the relative ranges among the parameters: the value and the seconds of
\* the unit of each
RelativeTable ==
    { [text |-> <<"1", "5", "m">>, value |-> 15, unit |-> 60],
      [text |-> <<"1", "h">>, value |-> 1, unit |-> 3600],
      [text |-> <<"7", "d">>, value |-> 7, unit |-> 86400],
      [text |-> <<"3", "0", "s">>, value |-> 30, unit |-> 1],
      [text |-> <<"-", "5", "m">>, value |-> -5, unit |-> 60],
      [text |-> <<"+", "5", "m">>, value |-> 5, unit |-> 60],
      [text |-> <<"2", "0", "0", "0", "0", "0", "d">>, value |-> 200000, unit |-> 86400] }

\* the range ends now and starts value units before: its width is value
\* times the unit
IsRelativeRange(dr, now, value, unitSeconds) ==
    /\ dr.End = now
    /\ (now - dr.Start) % (unitSeconds * TicksPerSecond) = 0
    /\ (now - dr.Start) \div (unitSeconds * TicksPerSecond) = value

\* what the claim says of the result for the relative ranges of a set
DateRangeAsSpecified(relative) ==
    op = "ParseDateRange" =>
       IF call.param.start # <<>> /\ call.param.end # <<>>
       THEN /\ err <=> ~(call.param.start \in DOMAIN InstantOf /\ call.param.end \in DOMAIN InstantOf)
            /\ ~err => dateRange = [Start |-> TimeUnix(InstantOf[call.param.start]),
                                    End |-> TimeUnix(InstantOf[call.param.end])]
       ELSE /\ ~err
            /\ call.param.timeRange \in MalformedRanges =>
                  dateRange = [Start |-> call.param.now, End |-> call.param.now]
            /\ \A r \in relative :
                  call.param.timeRange = r.text =>
                     IsRelativeRange(dateRange, call.param.now, r.value, r.unit)

\* C19: with both start and end the result is their range, an error iff one
\* of them is no RFC3339 time; otherwise a relative range <int><unit> gives
\* [now - value * unit, now], and a malformed one gives [now, now] without
\* an error
C19_ParseDateRange == DateRangeAsSpecified(RelativeTable)

\* the part of C19 that holds: the same for the relative ranges that a
\* time.Duration can hold (about 292 years)
ParseDateRangeWithinDuration ==
    DateRangeAsSpecified({ r \in RelativeTable : r.value * (r.unit \div 3600) < 2562047 })

(***************************************************************************)
(* Properties of the series over ranges that do not end after they start.  *)
(***************************************************************************)
\* C20: a series query called with a date range whose end is not after its
\* start returns an error and no series
C20_SeriesRequireEndAfterStart ==
    (op \in SeriesOps /\ dateRange.End <= dateRange.Start) =>
        err /\ series = <<>>

\* the part of C20 that holds: GetPercentileSeries and GetAvgDuration
\* return an error and no series for such a range
StandaloneSeriesRequireEndAfterStart ==
    (op \in {"GetPercentileSeries", "GetAvgDuration"} /\ dateRange.End <= dateRange.Start) =>
        err /\ series = <<>>

(***************************************************************************)
(* Properties of the handler of POST /v1/traces on documents that lack     *)
(* optional messages.                                                      *)
(***************************************************************************)
\* an entry of the document has no resource, or a group of it has no scope
LacksResourceOrScope(d) ==
    \E i \in 1..Len(d) :
       \/ ~d[i].resource.present
       \/ \E j \in 1..Len(d[i].groups) :
             ~d[i].groups[j].scope.present /\ d[i].groupsKey = "scopeSpans"

\* C27: every POST /v1/traces whose body decodes ends in a response, 200 or
\* an error status, also when an entry has no resource or a group no scope
C27_DecodedRequestIsAnswered ==
    (Posted /\ request.format # "other") => (pc = "done" /\ status # 0)

\* the part of C27 that holds: the documents that carry every resource and
\* every scope are answered when the store takes their batches
CompleteDocumentIsAnswered ==
    (Posted /\ request.format # "other" /\ ~LacksResourceOrScope(doc))
        => (pc = "done" /\ status = 200)

(***************************************************************************)
(* Properties of an ingest whose insert fails.                             *)
(***************************************************************************)
\* the insert of a group of the current request failed: ingestTrace
\* returned its error, groupIdx being the group
InsertFailed == pc = "panicked" /\ StoreFailed

\* the rows the table gained are those of the first n groups, in order
GainedGroups(n) ==
    /\ Len(Gained) >= SpanTotal(n)
    /\ \A g \in 1..n :
          \A k \in 1..SpansOf(g) :
             Gained[SpanTotal(g - 1) + k].span_id
                = req[Groups(req)[g].rs][Groups(req)[g].ss][k].span_id

\* C24: when the insert of group k fails, the rows of the groups before k
\* are in the table; no row of group k is there when Prepare or Append
\* failed; no group after k was attempted; and no group has more than one
\* batch
C24_IngestFailureSemantics ==
    /\ \A n \in 1..Len(Groups(req)) : Cardinality(BatchesOf(n)) <= 1
    /\ InsertFailed =>
          /\ GainedGroups(groupIdx - 1)
          /\ batches[Len(batches)].group = groupIdx
          /\ batches[Len(batches)].result \in {"prepare failed", "append failed"}
                => Len(Gained) = SpanTotal(groupIdx - 1)
          /\ \A b \in DOMAIN batches : batches[b].group <= groupIdx
          /\ Len(Gained) <= SpanTotal(groupIdx)

\* an Append of a group failed, with groups before it stored and a group
\* after it
C24_Witness ==
    /\ InsertFailed
    /\ batches[Len(batches)].result = "append failed"
    /\ Len(batches) >= 2
    /\ Len(Gained) > 0
    /\ SpansOf(groupIdx) >= 1
    /\ groupIdx < Len(Groups(req))

\* a batch was sent to the store in this step
BatchSent ==
    /\ Len(batches') = Len(batches) + 1
    /\ batches'[Len(batches')].result = "sent"

\* C21: the store operations of an ingest request are bound to the
\* cancellation of the request: once the request is cancelled, no further
\* batch is sent.
C21_NoBatchAfterCancel == [][request.cancelled => ~BatchSent]_vars

\* the answer still follows the store alone: a cancelled request whose inserts
\* succeed is answered 200
CancelledRequestStillAnswered ==
    (pc = "done" /\ request.cancelled) => (status = 200 /\ ~StoreFailed)

\* the search was answered with a response
SearchAnswered == call.endpoint = "searchTraces" /\ reply.status = 200

\* the rows of the table that pass the filter of the search
Found == Filtered(rows, dateRange, call.param)

\* the filtered rows that start within the bucket at ts
FoundInBucket(ts) ==
    LET step == ParseInterval(GetIntervalFromDateRange(dateRange)).step
    IN  { i \in 1..Len(Found) :
            toStartOfInterval(toDateTime(Found[i].start_time_unix_nano), step) = ts }

\* C26: the three series of a search response are taken over all the filtered
\* rows, whatever the page, the page size and the sort: each point of the
\* count series is the number of filtered rows of its bucket, each point of
\* the average series their mean duration, and each point of the percentile
\* series lies between their least and their greatest duration.
C26_SeriesOverWholeFilteredSet ==
    SearchAnswered =>
       LET duration == [i \in 1..Len(Found) |-> Found[i].duration_ns]
       IN  /\ \A n \in DOMAIN reply.body.traceCountResults :
                  LET pt == reply.body.traceCountResults[n]
                  IN  pt.Value = Cardinality(FoundInBucket(pt.Timestamp))
           /\ \A n \in DOMAIN reply.body.avgDurationResults :
                  LET pt == reply.body.avgDurationResults[n]
                      g == FoundInBucket(pt.Timestamp)
                  IN  pt.Value = IF g = {} THEN 0 ELSE SumOver(duration, g) \div Cardinality(g)
           /\ \A n \in DOMAIN reply.body.percentileResults :
                  LET pt == reply.body.percentileResults[n]
                      g == FoundInBucket(pt.Timestamp)
                  IN  IF g = {} THEN pt.Value = 0
                      ELSE \E i, j \in g : duration[i] <= pt.Value /\ pt.Value <= duration[j]

\* a response with the second page of one row, of a search that found two
\* rows of different durations
C26_Witness ==
    /\ SearchAnswered
    /\ call.page = 2
    /\ call.pageSize = 1
    /\ Len(reply.body.results.items) = 1
    /\ Len(Found) = 2
    /\ Found[1].duration_ns # Found[2].duration_ns

\* the same as a step: the count and the average series of two pages of one
\* search over the same table are the same
SeriesSameOnEveryPage ==
    [][ (SearchAnswered /\ SearchAnswered' /\ call'.page # call.page /\ rows' = rows)
           => /\ reply'.body.traceCountResults = reply.body.traceCountResults
              /\ reply'.body.avgDurationResults = reply.body.avgDurationResults ]_vars

\* no two filtered rows have the same trace id and span id
DistinctIds ==
    \A i, j \in 1..Len(Found) :
       (Found[i].trace_id = Found[j].trace_id /\ Found[i].span_id = Found[j].span_id) => i = j

\* C28: totalCount is the number of rows the pages of the search hold
\* together; where one page holds them all, the number of its results.
C28_TotalCountIsRowsOfPages ==
    (SearchAnswered /\ WholeList) => reply.body.totalCount = Len(reply.body.results.items)

\* the part of C28 that holds: the same while no two filtered rows share
\* their trace id and span id
TotalCountOfDistinctRows ==
    (SearchAnswered /\ WholeList /\ DistinctIds)
       => reply.body.totalCount = Len(reply.body.results.items)

\* C30: the quantile level the search hands to the store for its percentile
\* series lies within 0 and 1, whatever percentile the client sent.
C30_QuantileLevelWithinUnit ==
    call.endpoint = "searchTraces" =>
       LET level == QuantileLevel(call.percentile)
       IN  level.num >= 0 /\ level.num <= level.den

\* what happens instead: the level goes to the store as it is, the store
\* refuses the query and the search is answered 500
LevelOutsideUnitIsRefused ==
    (call.endpoint = "searchTraces" /\ call.percentile \notin 0..100) => reply.status = 500

\* C23: a failure of the store during a search, at a query or at the reading
\* of its rows, is answered 500; the handler never ends without an answer.
C23_StoreFailureAnswered500 ==
    (call.endpoint = "searchTraces" /\ ~call.storeOk) => reply.status = 500

\* a search during which the store failed is never answered 200
StoreFailureNeverAnswered200 ==
    (call.endpoint = "searchTraces" /\ ~call.storeOk) => reply.status \in {500, 0}

(***************************************************************************)
(* The handler of the percentile series, GET /api/metrics/p: getPMetrics   *)
(* with ParseDateRange and GetPercentileSeries.                            *)
(***************************************************************************)
\* the percentile parameter of the requests: absent, no number, a number
\* followed by a letter, and numbers within and outside 0..100
PMetricsPercentiles ==
    { <<>>, <<"x">>, <<"9", "9", "x">>, Itoa(50), Itoa(150), Itoa(-1) }

\* the date parameters of the requests
PMetricsStarts == { <<>>, At5s, DateOnly }
PMetricsEnds == { <<>>, At60s, At5s }
PMetricsRanges == { <<>>, <<"3", "0", "s">> }

\* the tables the series is taken over: spans of the first minute
PMetricsRow(st, en) == [start |-> st * TicksPerSecond, end |-> en * TicksPerSecond]
PMetricsTables ==
    { <<>>,
      <<PMetricsRow(10, 12)>>,
      <<PMetricsRow(10, 12), PMetricsRow(11, 15)>>,
      <<PMetricsRow(10, 12), PMetricsRow(80, 81)>> }

\* the clamp of GetPercentileSeries
ClampPercentile(percentile) ==
    IF percentile < 0 THEN 0 ELSE IF percentile > 100 THEN 100 ELSE percentile

\* GetPercentileSeries over table: the error for a range that does not end
\* after its start, else the error of the query or the padded series the
\* store may give
PercentileSeriesOf(table, dr, storeOk) ==
    IF dr.End <= dr.Start THEN { [err |-> TRUE, queried |-> FALSE, series |-> <<>>] }
    ELSE IF ~storeOk THEN { [err |-> TRUE, queried |-> TRUE, series |-> <<>>] }
    ELSE LET intervalSQL == GetIntervalFromDateRange(dr)
             sel == { i \in DOMAIN table :
                        table[i].start >= dr.Start /\ table[i].end <= dr.End }
             bucketOf == [i \in sel |->
                             toStartOfInterval(toDateTime(table[i].start),
                                               ParseInterval(intervalSQL).step)]
             duration == [i \in sel |-> table[i].end - table[i].start]
         IN  { [err |-> PadQueryResult(vals, intervalSQL, dr).err, queried |-> TRUE,
                series |-> PadQueryResult(vals, intervalSQL, dr).series] :
                  vals \in QuantileByBucket(sel, bucketOf, duration) }

InitPMetrics ==
    /\ op = "none"
    /\ ParserIdle
    /\ SeriesIdle
    /\ rows \in PMetricsTables
    /\ IngestIdle
    /\ AttrsIdle
    /\ ApiIdle

\* getPMetrics: the percentile is 95 unless the parameter is an integer; a
\* date range that does not parse is answered 400, an error of the service
\* 500, and the series is encoded otherwise
getPMetrics ==
    /\ \E ps \in PMetricsPercentiles, startStr \in PMetricsStarts, endStr \in PMetricsEnds,
          timeRange \in PMetricsRanges, storeOk \in BOOLEAN :
          LET pct == PercentileOf(ps)
              dr == ParseDateRange(startStr, endStr, timeRange, TimeUnix(100))
          IN  /\ dateRange' = dr.dateRange
              /\ err' = dr.err
              /\ IF dr.err
                 THEN /\ call' = [endpoint |-> "getPMetrics", param |-> ps, storeOk |-> storeOk,
                                  queried |-> FALSE,
                                  level |-> QuantileLevel(ClampPercentile(pct))]
                      /\ reply' = Failed(400)
                 ELSE \E r \in PercentileSeriesOf(rows, dr.dateRange, storeOk) :
                         /\ call' = [endpoint |-> "getPMetrics", param |-> ps,
                                     storeOk |-> storeOk, queried |-> r.queried,
                                     level |-> QuantileLevel(ClampPercentile(pct))]
                         /\ reply' = IF r.err THEN Failed(500) ELSE Ok(JsonList(r.series))
    /\ op' = "getPMetrics"
    /\ UNCHANGED <<rows, interval, series, doc>>
    /\ UNCHANGED parserVars
    /\ UNCHANGED ingestVars
    /\ UNCHANGED attrVars

NextPMetrics == getPMetrics

SpecPMetrics == InitPMetrics /\ [][NextPMetrics]_vars

\* the percentile parameter of the request is there and is no integer
MalformedPercentile ==
    call.endpoint = "getPMetrics" /\ call.param # <<>> /\ Atoi(call.param).err

\* C22: a request for the percentile series whose percentile parameter is no
\* integer is answered 400, and the store is not queried for it.
C22_MalformedIntegerRejected ==
    MalformedPercentile => (reply.status = 400 /\ ~call.queried)

\* what the handler does instead: the parameter counts as absent, and the
\* series is that of the 95th percentile
MalformedPercentileIsDefault ==
    MalformedPercentile => call.level = QuantileLevel(95)

\* the level of the percentile series of this handler is within 0 and 1
PMetricsLevelWithinUnit ==
    call.endpoint = "getPMetrics" => (call.level.num >= 0 /\ call.level.num <= call.level.den)

(***************************************************************************)
(* Two ingest requests at once.  net/http runs every request in a          *)
(* goroutine of its own; the handlers share the connection to the store    *)
(* and nothing else.  Here pc, req, groupIdx, status and batches hold one  *)
(* value per handler, batches[h] being the span list the handler h has in  *)
(* hand; rows is the one table.                                            *)
(***************************************************************************)
Handlers == {1, 2}

\* the payloads of the two requests
ConcurrentShapes ==
    { << <<1>> >>,
      << <<2>> >>,
      << <<1, 0, 2>> >>,
      << <<2, 1>>, <<>>, <<1>> >> }
ConcurrentPayloads == { PayloadOfShape(sh) : sh \in ConcurrentShapes }

\* a variant in which the handlers append to one span list, that of the first
OwnSpans_Shared(lists, h) == lists[1]

\* var spans []utils.Span is declared in the body of the loop over the groups:
\* every handler has a list of its own for the group it works on
OwnSpans(lists, h) == lists[h]

InitConcurrent ==
    /\ op = "none"
    /\ ParserIdle
    /\ SeriesIdle
    /\ rows = <<>>
    /\ pc = [h \in Handlers |-> "ingest"]
    /\ request = NoRequest
    /\ req \in [Handlers -> ConcurrentPayloads]
    /\ groupIdx = [h \in Handlers |-> 1]
    /\ status = [h \in Handlers |-> 0]
    /\ batches = [h \in Handlers |-> <<>>]
    /\ rows0 = <<>>
    /\ served = 0
    /\ AttrsIdle
    /\ ApiIdle

\* the handler h builds the span list of its next group
BuildGroup(h) ==
    /\ pc[h] = "ingest"
    /\ groupIdx[h] <= Len(Groups(req[h]))
    /\ batches' = [batches EXCEPT ![h] = BuildSpans(req[h], Groups(req[h])[groupIdx[h]])]
    /\ pc' = [pc EXCEPT ![h] = "insert"]
    /\ UNCHANGED <<op, rows, request, req, groupIdx, status, rows0, served>>
    /\ UNCHANGED parserVars
    /\ UNCHANGED seriesVars
    /\ UNCHANGED attrVars
    /\ UNCHANGED apiVars

\* the handler h inserts its span list: the store appends the rows of the
\* batch to the table; on an error the handler panics
SendGroup(h) ==
    /\ pc[h] = "insert"
    /\ \E outcome \in OutcomesUnder(IngestContext(request)), landed \in BOOLEAN :
          LET r == InsertDenormalizedSpans(OwnSpans(batches, h), outcome, landed)
          IN  /\ rows' = rows \o r.stored
              /\ pc' = [pc EXCEPT ![h] = AfterInsert(r.err)]
              /\ groupIdx' = [groupIdx EXCEPT ![h] = IF r.err THEN @ ELSE @ + 1]
    /\ UNCHANGED <<op, request, req, status, batches, rows0, served>>
    /\ UNCHANGED parserVars
    /\ UNCHANGED seriesVars
    /\ UNCHANGED attrVars
    /\ UNCHANGED apiVars

\* ingestTrace of the handler h returned nil: status 200
RespondConcurrent(h) ==
    /\ pc[h] = "ingest"
    /\ groupIdx[h] > Len(Groups(req[h]))
    /\ status' = [status EXCEPT ![h] = 200]
    /\ pc' = [pc EXCEPT ![h] = "done"]
    /\ UNCHANGED <<op, rows, request, req, groupIdx, batches, rows0, served>>
    /\ UNCHANGED parserVars
    /\ UNCHANGED seriesVars
    /\ UNCHANGED attrVars
    /\ UNCHANGED apiVars

NextConcurrent ==
    \E h \in Handlers : BuildGroup(h) \/ SendGroup(h) \/ RespondConcurrent(h)

SpecConcurrent == InitConcurrent /\ [][NextConcurrent]_vars

\* the rows a request appends when it is ingested alone
RECURSIVE RowsFrom(_, _)
RowsFrom(r, n) ==
    IF n > Len(Groups(r)) THEN <<>>
    ELSE AppendedRows(BuildSpans(r, Groups(r)[n])) \o RowsFrom(r, n + 1)
RowsAlone(r) == RowsFrom(r, 1)

\* how often the row x is in the list
Occurrences(list, x) == Cardinality({ i \in DOMAIN list : list[i] = x })

\* both requests were answered 200
BothSucceeded == \A h \in Handlers : pc[h] = "done" /\ status[h] = 200

\* C25: when two ingest requests run at the same time and both succeed, the
\* table has gained the rows of the one and the rows of the other, each as
\* often as the two requests hold it together: no row is lost, doubled or
\* changed, whatever the interleaving.
C25_ConcurrentIngestsAreUnion ==
    BothSucceeded =>
       /\ Len(rows) = Len(RowsAlone(req[1])) + Len(RowsAlone(req[2]))
       /\ \A i \in DOMAIN rows :
              Occurrences(rows, rows[i])
                 = Occurrences(RowsAlone(req[1]), rows[i]) + Occurrences(RowsAlone(req[2]), rows[i])

\* two requests with different payloads succeeded, and their batches
\* alternate in the table
C25_Witness ==
    /\ BothSucceeded
    /\ req[1] # req[2]
    /\ Len(Groups(req[1])) >= 2
    /\ rows # RowsAlone(req[1]) \o RowsAlone(req[2])
    /\ rows # RowsAlone(req[2]) \o RowsAlone(req[1])

(***************************************************************************)
(* A search while ingests commit.  SearchTraces sends five queries to the  *)
(* store one after the other: the count, the three series, the page.  The  *)
(* collector runs in the same process and commits batches in between.      *)
(* Here pc is the query the search is at, series holds what it has got so  *)
(* far, rows0 the table as it was when the search began.  The store        *)
(* answers every query, and no two rows have the same ids.                 *)
(***************************************************************************)
NoResults == [totalCount |-> 0, pResult |-> <<>>, tcResult |-> <<>>, avgResult |-> <<>>]

\* the search of the client: the first page, with room for every row, in the
\* default order
WholePage == [page |-> 1, pageSize |-> 10, sort |-> SortOption("", "")]

InitSnapshot ==
    /\ op = "none"
    /\ ParserIdle
    /\ rows \in CatalogRuns
    /\ dateRange \in SearchRanges
    /\ interval = <<>>
    /\ series = NoResults
    /\ err = FALSE
    /\ pc = "idle"
    /\ request = NoRequest
    /\ req = <<>>
    /\ groupIdx = 0
    /\ status = 0
    /\ batches = <<>>
    /\ rows0 = <<>>
    /\ served = 0
    /\ AttrsIdle
    /\ ApiIdle

\* a batch of the collector commits: a span the table does not hold yet
CommitBatch ==
    /\ Len(rows) <= MaxTableRows
    /\ \E i \in DOMAIN SearchCatalog :
          /\ \A j \in DOMAIN rows : rows[j] # SearchCatalog[i]
          /\ rows' = Append(rows, SearchCatalog[i])
    /\ UNCHANGED <<op, dateRange, interval, series, err>>
    /\ UNCHANGED <<pc, request, req, groupIdx, status, batches, rows0, served>>
    /\ UNCHANGED parserVars
    /\ UNCHANGED attrVars
    /\ UNCHANGED apiVars

\* the count query of a search
CountQuery ==
    /\ pc = "idle"
    /\ call = NoCall
    /\ \E q \in SearchQueries :
          /\ call' = [endpoint |-> "searchTraces", param |-> q, storeOk |-> TRUE,
                      page |-> WholePage.page, pageSize |-> WholePage.pageSize,
                      sort |-> WholePage.sort, percentile |-> 95]
          /\ series' = [NoResults EXCEPT
                           !.totalCount = TotalCount(Filtered(rows, dateRange, q))]
    /\ rows0' = rows
    /\ pc' = "percentile"
    /\ op' = "searchTraces"
    /\ UNCHANGED <<rows, dateRange, interval, err, doc, reply>>
    /\ UNCHANGED <<request, req, groupIdx, status, batches, served>>
    /\ UNCHANGED parserVars
    /\ UNCHANGED attrVars

\* getPercentileForQuery
PercentileQuery ==
    /\ pc = "percentile"
    /\ \E p \in SearchSeries(Filtered(rows, dateRange, call.param), dateRange).pResults :
          /\ ~p.err
          /\ series' = [series EXCEPT !.pResult = p.series]
    /\ pc' = "traceCount"
    /\ UNCHANGED <<op, rows, dateRange, interval, err>>
    /\ UNCHANGED <<request, req, groupIdx, status, batches, rows0, served>>
    /\ UNCHANGED parserVars
    /\ UNCHANGED attrVars
    /\ UNCHANGED apiVars

\* getTraceCountForQuery
TraceCountQuery ==
    /\ pc = "traceCount"
    /\ series' = [series EXCEPT !.tcResult =
                     SearchSeries(Filtered(rows, dateRange, call.param), dateRange).tcResult.series]
    /\ pc' = "avgDuration"
    /\ UNCHANGED <<op, rows, dateRange, interval, err>>
    /\ UNCHANGED <<request, req, groupIdx, status, batches, rows0, served>>
    /\ UNCHANGED parserVars
    /\ UNCHANGED attrVars
    /\ UNCHANGED apiVars

\* getAverageDurationForQuery
AvgDurationQuery ==
    /\ pc = "avgDuration"
    /\ series' = [series EXCEPT !.avgResult =
                     SearchSeries(Filtered(rows, dateRange, call.param), dateRange).avgResult.series]
    /\ pc' = "page"
    /\ UNCHANGED <<op, rows, dateRange, interval, err>>
    /\ UNCHANGED <<request, req, groupIdx, status, batches, rows0, served>>
    /\ UNCHANGED parserVars
    /\ UNCHANGED attrVars
    /\ UNCHANGED apiVars

\* the page query, and the response
PageQuery ==
    /\ pc = "page"
    /\ \E res \in ResultPages(Filtered(rows, dateRange, call.param),
                               call.page, call.pageSize, call.sort) :
          reply' = Ok(SearchResponse(res, series.totalCount, call.page, call.pageSize,
                                     series.pResult, series.tcResult, series.avgResult))
    /\ pc' = "done"
    /\ UNCHANGED <<op, rows, dateRange, interval, series, err, doc, call>>
    /\ UNCHANGED <<request, req, groupIdx, status, batches, rows0, served>>
    /\ UNCHANGED parserVars
    /\ UNCHANGED attrVars

NextSnapshot ==
    CommitBatch \/ CountQuery \/ PercentileQuery \/ TraceCountQuery
       \/ AvgDurationQuery \/ PageQuery

SpecSnapshot == InitSnapshot /\ [][NextSnapshot]_vars

\* the sum of the values of a series
RECURSIVE SumOfSeries(_)
SumOfSeries(points) ==
    IF Len(points) = 0 THEN 0 ELSE Head(points).Value + SumOfSeries(Tail(points))

\* the response of the search that went through its five queries
SearchDone == pc = "done" /\ reply.status = 200

\* totalCount, the count series and the page of the response speak of the
\* same rows
ResponseConsistent ==
    /\ reply.body.totalCount = Len(reply.body.results.items)
    /\ SumOfSeries(reply.body.traceCountResults) = reply.body.totalCount

\* C29: the response of a search is consistent in itself also when batches
\* commit while the search runs: its totalCount, the sum of its count series
\* and the number of rows of its page, which holds them all, agree.
C29_SearchSeesOneStoreState == SearchDone => ResponseConsistent

\* the part of C29 that holds: the same for a search during which no batch
\* committed
QuietSearchIsConsistent == (SearchDone /\ rows = rows0) => ResponseConsistent

====
